---- MODULE Spec2Model ----
(***************************************************************************)
(* Source gateway of wechat_agent: SourceRouter, SourceHealthService and   *)
(* SourceGateway (services/source_gateway.py), driven by                   *)
(* SyncService._sync_subscription_v2 (services/sync_service.py).           *)
(*                                                                         *)
(* One subscription is modelled; a candidate is identified by its          *)
(* (provider, url) key.  The clock counts hours.  Strings that the code    *)
(* writes in Chinese are written in English here.  A null string (None)    *)
(* and the empty string are both "" (the code only tests them with `or`);  *)
(* a null datetime is the empty sequence, a set one is <<t>>.              *)
(***************************************************************************)
EXTENDS Integers, Sequences, FiniteSets, TLC

(* ------------------------------ bounds --------------------------------- *)

\* SourceHealthService.fail_threshold is configured between 1 and this
MaxFailThreshold == 2
\* SourceHealthService.cooldown_minutes, in hours of the model clock
CooldownHours == 1
\* SourceGateway.max_candidates is configured between 1 and this
MaxMaxCandidates == 2
\* the clock stops advancing here
MaxTime == 2
\* no call and no direct record starts once fetch_attempts has this many rows
MaxLog == 3
\* sync runs in a behaviour
MaxRuns == 2
\* sync_overlap_seconds is 0 or this
MaxOverlap == 2

\* the longest candidate list SourceRouter is given on its own
MaxRankLen == 2

\* the most subscriptions in the database of a coverage report
MaxCovSubs == 2

\* the most articles in the database of a view
MaxViewArticles == 2

\* the most refs one search returns
MaxRefs == 3

\* the articles the recommender is examined over
MaxRecArticles == 2

\* the entries of a feed
MaxEntries == 1

(* --------------------------- program constants ------------------------- *)

HEALTH_STATE_CLOSED == "CLOSED"
HEALTH_STATE_OPEN == "OPEN"
HEALTH_STATE_HALF_OPEN == "HALF_OPEN"
FETCH_STATUS_SUCCESS == "SUCCESS"
FETCH_STATUS_FAILED == "FAILED"
FETCH_STATUS_SKIPPED == "SKIPPED"

SOURCE_MODE_AUTO == "auto"
SOURCE_MODE_MANUAL == "manual"

SOURCE_STATUS_PENDING == "PENDING"
SOURCE_STATUS_ACTIVE == "ACTIVE"
SOURCE_STATUS_MATCH_FAILED == "MATCH_FAILED"

SYNC_ITEM_STATUS_SUCCESS == "SUCCESS"
SYNC_ITEM_STATUS_FAILED == "FAILED"
MANUAL_PROVIDER == "manual"
RSSHUB_MIRROR_PROVIDER == "rsshub_mirror"

\* _refresh_metrics looks back timedelta(hours=24) and divides the age by 24.0
HoursPerDay == 24
\* scores are kept as integers: score * ScoreScale, exact for up to 8 rows
ScoreScale == 2 * 2 * 2 * 3 * 5 * 7

Min(a, b) == IF a <= b THEN a ELSE b
Max(a, b) == IF a >= b THEN a ELSE b

\* _clamp(value, low, high)
_clamp(value, low, high) == Min(high, Max(low, value))

(* ------------------------------ candidates ----------------------------- *)

\* The (provider, url) keys a discovery can yield for the subscription, in
\* the order discover_candidates puts them into its dedup dict: the manual
\* provider's row, the mirror templates (config.py has two by default), then
\* stored rows of a provider that is not registered with this gateway.
CandidateKeys == <<"manual_u", "mirror_u", "mirror2_u", "ghost_u">>
Keys == {CandidateKeys[i] : i \in 1..Len(CandidateKeys)}

\* the keys of a gateway configured with a single mirror template
OneTemplateKeys == Keys \ {"mirror2_u"}

\* SourceGateway.providers: the registered provider names
Providers == {MANUAL_PROVIDER, RSSHUB_MIRROR_PROVIDER}

\* SourceCandidate as the providers build it; discovered_at of a mirror
\* candidate is the time of the discovery, stored rows keep theirs.
Candidate(k, t) ==
    CASE k = "manual_u" -> [key |-> k, provider |-> MANUAL_PROVIDER, priority |-> 0,
                            is_pinned |-> TRUE, confidence |-> 100, discovered_at |-> 0]
      [] k = "mirror_u" -> [key |-> k, provider |-> RSSHUB_MIRROR_PROVIDER, priority |-> 20,
                            is_pinned |-> FALSE, confidence |-> 55, discovered_at |-> t]
      [] k = "mirror2_u" -> [key |-> k, provider |-> RSSHUB_MIRROR_PROVIDER, priority |-> 21,
                             is_pinned |-> FALSE, confidence |-> 55, discovered_at |-> t]
      [] OTHER          -> [key |-> k, provider |-> "ghost", priority |-> 60,
                            is_pinned |-> FALSE, confidence |-> 30, discovered_at |-> 0]

ProviderOf(k) == Candidate(k, 0).provider

(* ------------------------------ providers ------------------------------ *)

\* What provider.probe returns: ProbeResult(ok, latency_ms, error_kind,
\* error_message); the failing one fills in neither field.
ProbeResults ==
    { [ok |-> TRUE,  latency_ms |-> 0, error_kind |-> "", error_message |-> ""],
      [ok |-> FALSE, latency_ms |-> 0, error_kind |-> "", error_message |-> ""] }

\* An exception a provider.fetch invocation raises, or its return: type is
\* the exception class ("return" for a normal return), code the HTTP status,
\* latency_ms the time the invocation took.
Outcome(type, code, message, articles) ==
    [type |-> type, code |-> code, message |-> message, articles |-> articles,
     latency_ms |-> 0]

Returns == Outcome("return", 0, "", <<"e1">>)
Timeout == Outcome("TimeoutException", 0, "timed out", <<>>)
Http(code) == Outcome("HTTPStatusError", code, "status", <<>>)

\* what a fetch invocation does in the runs of the gateway: it returns the
\* feed or times out (the retried kind); the other kinds of failure are
\* examined on _fetch_with_retry alone
FetchOutcomes == {Returns, Timeout}

\* what a fetch invocation does where _fetch_with_retry is examined alone
AllFetchOutcomes ==
    FetchOutcomes \cup {Http(503), Http(404), Http(403), Http(418), Http(302),
                        Outcome("RequestError", 0, "refused", <<>>),
                        Outcome("Exception", 0, "", <<>>)}

\* classify_error(exc): the (error_kind, message) of a raised exception
classify_error(exc) ==
    IF exc.type = "TimeoutException" THEN [error_kind |-> "TIMEOUT", error_message |-> exc.message]
    ELSE IF exc.type = "HTTPStatusError" THEN
        IF 400 <= exc.code /\ exc.code < 500 THEN
            IF exc.code \in {401, 403} THEN [error_kind |-> "BLOCKED", error_message |-> exc.message]
            ELSE IF exc.code = 404 THEN [error_kind |-> "NOT_FOUND", error_message |-> exc.message]
            ELSE [error_kind |-> "HTTP_4XX", error_message |-> exc.message]
        ELSE IF 500 <= exc.code /\ exc.code < 600 THEN [error_kind |-> "HTTP_5XX", error_message |-> exc.message]
        ELSE [error_kind |-> "HTTP_ERROR", error_message |-> exc.message]
    ELSE IF exc.type = "RequestError" THEN [error_kind |-> "NETWORK", error_message |-> exc.message]
    ELSE [error_kind |-> "UNKNOWN", error_message |-> exc.message]

\* `a or b` on optional strings
OrElse(a, b) == IF a = "" THEN b ELSE a

(* --------------------------- SourceHealthService ----------------------- *)

\* The SourceHealth row _get_or_create_health inserts for a new key
NewHealth(k) ==
    [state |-> HEALTH_STATE_CLOSED,
     score |-> Candidate(k, 0).confidence * ScoreScale,
     consecutive_failures |-> 0,
     cooldown_until |-> <<>>,
     last_ok_at |-> <<>>,
     last_error |-> ""]

\* _get_or_create_health: the health table with a row for k
_get_or_create_health(h, k) ==
    IF k \in DOMAIN h THEN h ELSE h @@ (k :> NewHealth(k))

\* The FetchAttempt row record_attempt inserts (sync_run_id and http_code are
\* never read back and are left out; a call's rows are those after call_start)
FetchAttempt(k, status, latency_ms, error_kind, error_message, t) ==
    [key |-> k, status |-> status,
     latency_ms |-> Max(latency_ms, 0),
     error_kind |-> error_kind, error_message |-> error_message,
     created_at |-> t]

\* sum of f[i] over the indices in S
RECURSIVE SumOver(_, _)
SumOver(f, S) ==
    IF S = {} THEN 0
    ELSE LET i == CHOOSE x \in S : TRUE IN f[i] + SumOver(f, S \ {i})

\* _refresh_metrics: the row's score recomputed from the FetchAttempt rows
\* of its key in the last 24 hours.  score is held times ScoreScale.
_refresh_metrics(row, log, k, t) ==
    LET lower == t - HoursPerDay
        rows == {i \in 1..Len(log) : log[i].key = k /\ log[i].created_at >= lower}
        total == Cardinality(rows)
        success == Cardinality({i \in rows : log[i].status = FETCH_STATUS_SUCCESS})
        latency_sum == SumOver([i \in 1..Len(log) |-> log[i].latency_ms], rows)
        \* 0.45 * success_rate
        rate_part == (45 * ScoreScale * success) \div total
        \* 0.25 * (1 - clamp(avg_latency / 5000))
        latency_part == 25 * ScoreScale
                        - (25 * ScoreScale * _clamp(latency_sum, 0, 5000 * total))
                              \div (5000 * total)
        \* 0.20 * clamp(1 - age_hours / 24), 0 when last_ok_at is null
        age_hours == IF row.last_ok_at = <<>> THEN 0 ELSE Max(t - row.last_ok_at[1], 0)
        fresh_part == IF row.last_ok_at = <<>> THEN 0
                      ELSE _clamp((20 * ScoreScale * (HoursPerDay - age_hours)) \div HoursPerDay,
                                  0, 20 * ScoreScale)
        \* 0.10 * clamp(total / 7)
        coverage_part == (10 * ScoreScale * Min(total, 7)) \div 7
    IN  IF total = 0
        THEN [row EXCEPT !.score = _clamp(row.score, 0, 100 * ScoreScale)]
        ELSE [row EXCEPT !.score = _clamp(rate_part + latency_part + fresh_part + coverage_part,
                                          0, 100 * ScoreScale)]

\* UpdateHealth opening the circuit without a cooldown
UpdateHealth_nocooldown(row, status, error_message, t, threshold) ==
    IF status = FETCH_STATUS_SUCCESS THEN
        [row EXCEPT !.consecutive_failures = 0,
                    !.state = HEALTH_STATE_CLOSED,
                    !.cooldown_until = <<>>,
                    !.last_ok_at = <<t>>,
                    !.last_error = ""]
    ELSE IF status = FETCH_STATUS_FAILED THEN
        LET failures == row.consecutive_failures + 1 IN
        [row EXCEPT !.consecutive_failures = failures,
                    !.last_error = error_message,
                    !.state = IF failures >= threshold THEN HEALTH_STATE_OPEN
                              ELSE IF row.state = HEALTH_STATE_OPEN THEN HEALTH_STATE_HALF_OPEN
                              ELSE row.state]
    ELSE row

\* UpdateHealth opening the circuit one failure late
UpdateHealth_late(row, status, error_message, t, threshold) ==
    IF status = FETCH_STATUS_SUCCESS THEN
        [row EXCEPT !.consecutive_failures = 0,
                    !.state = HEALTH_STATE_CLOSED,
                    !.cooldown_until = <<>>,
                    !.last_ok_at = <<t>>,
                    !.last_error = ""]
    ELSE IF status = FETCH_STATUS_FAILED THEN
        LET failures == row.consecutive_failures + 1 IN
        [row EXCEPT !.consecutive_failures = failures,
                    !.last_error = error_message,
                    !.state = IF failures > threshold THEN HEALTH_STATE_OPEN
                              ELSE IF row.state = HEALTH_STATE_OPEN THEN HEALTH_STATE_HALF_OPEN
                              ELSE row.state,
                    !.cooldown_until = IF failures > threshold
                                       THEN <<t + CooldownHours>>
                                       ELSE row.cooldown_until]
    ELSE row

\* UpdateHealth with a SUCCESS that keeps the failure count
UpdateHealth_keepcount(row, status, error_message, t, threshold) ==
    IF status = FETCH_STATUS_SUCCESS THEN
        [row EXCEPT !.state = HEALTH_STATE_CLOSED,
                    !.cooldown_until = <<>>,
                    !.last_ok_at = <<t>>,
                    !.last_error = ""]
    ELSE IF status = FETCH_STATUS_FAILED THEN
        LET failures == row.consecutive_failures + 1 IN
        [row EXCEPT !.consecutive_failures = failures,
                    !.last_error = error_message,
                    !.state = IF failures >= threshold THEN HEALTH_STATE_OPEN
                              ELSE IF row.state = HEALTH_STATE_OPEN THEN HEALTH_STATE_HALF_OPEN
                              ELSE row.state,
                    !.cooldown_until = IF failures >= threshold
                                       THEN <<t + CooldownHours>>
                                       ELSE row.cooldown_until]
    ELSE row

\* UpdateHealth with a SUCCESS that leaves the cooldown standing
UpdateHealth_keepcooldown(row, status, error_message, t, threshold) ==
    IF status = FETCH_STATUS_SUCCESS THEN
        [row EXCEPT !.consecutive_failures = 0,
                    !.state = HEALTH_STATE_CLOSED,
                    !.last_ok_at = <<t>>,
                    !.last_error = ""]
    ELSE IF status = FETCH_STATUS_FAILED THEN
        LET failures == row.consecutive_failures + 1 IN
        [row EXCEPT !.consecutive_failures = failures,
                    !.last_error = error_message,
                    !.state = IF failures >= threshold THEN HEALTH_STATE_OPEN
                              ELSE IF row.state = HEALTH_STATE_OPEN THEN HEALTH_STATE_HALF_OPEN
                              ELSE row.state,
                    !.cooldown_until = IF failures >= threshold
                                       THEN <<t + CooldownHours>>
                                       ELSE row.cooldown_until]
    ELSE row

\* record_attempt, lines 454-469: the health row after an attempt with this
\* status at time t, threshold being self.fail_threshold
UpdateHealth(row, status, error_message, t, threshold) ==
    IF status = FETCH_STATUS_SUCCESS THEN
        [row EXCEPT !.consecutive_failures = 0,
                    !.state = HEALTH_STATE_CLOSED,
                    !.cooldown_until = <<>>,
                    !.last_ok_at = <<t>>,
                    !.last_error = ""]
    ELSE IF status = FETCH_STATUS_FAILED THEN
        LET failures == row.consecutive_failures + 1 IN
        [row EXCEPT !.consecutive_failures = failures,
                    !.last_error = error_message,
                    !.state = IF failures >= threshold THEN HEALTH_STATE_OPEN
                              ELSE IF row.state = HEALTH_STATE_OPEN THEN HEALTH_STATE_HALF_OPEN
                              ELSE row.state,
                    !.cooldown_until = IF failures >= threshold
                                       THEN <<t + CooldownHours>>
                                       ELSE row.cooldown_until]
    ELSE row

\* record_attempt: append the FetchAttempt, then update and re-score the
\* health row.  Yields the new (fetch_attempts, health).
record_attempt(h, log, k, status, latency_ms, error_kind, error_message, t, threshold) ==
    LET log2 == Append(log, FetchAttempt(k, status, latency_ms, error_kind, error_message, t))
        h2 == _get_or_create_health(h, k)
        row == UpdateHealth(h2[k], status, error_message, t, threshold)
    IN  [fetch_attempts |-> log2,
         health |-> [h2 EXCEPT ![k] = _refresh_metrics(row, log2, k, t)]]

\* should_skip_for_circuit still skipping at the instant the cooldown ends
should_skip_for_circuit_late(h, k, reference) ==
    IF k \notin DOMAIN h THEN [skip |-> FALSE, health |-> h]
    ELSE IF h[k].state # HEALTH_STATE_OPEN THEN [skip |-> FALSE, health |-> h]
    ELSE IF h[k].cooldown_until # <<>> /\ h[k].cooldown_until[1] >= reference
         THEN [skip |-> TRUE, health |-> h]
    ELSE [skip |-> FALSE, health |-> [h EXCEPT ![k].state = HEALTH_STATE_HALF_OPEN]]

\* should_skip_for_circuit clearing the failure count when it half-opens
should_skip_for_circuit_reset(h, k, reference) ==
    IF k \notin DOMAIN h THEN [skip |-> FALSE, health |-> h]
    ELSE IF h[k].state # HEALTH_STATE_OPEN THEN [skip |-> FALSE, health |-> h]
    ELSE IF h[k].cooldown_until # <<>> /\ h[k].cooldown_until[1] > reference
         THEN [skip |-> TRUE, health |-> h]
    ELSE [skip |-> FALSE,
          health |-> [h EXCEPT ![k].state = HEALTH_STATE_HALF_OPEN,
                               ![k].consecutive_failures = 0]]

\* should_skip_for_circuit letting a cooling candidate through
should_skip_for_circuit_open(h, k, reference) == [skip |-> FALSE, health |-> h]

\* should_skip_for_circuit: the returned flag and the health table after it
should_skip_for_circuit(h, k, reference) ==
    IF k \notin DOMAIN h THEN [skip |-> FALSE, health |-> h]
    ELSE IF h[k].state # HEALTH_STATE_OPEN THEN [skip |-> FALSE, health |-> h]
    ELSE IF h[k].cooldown_until # <<>> /\ h[k].cooldown_until[1] > reference
         THEN [skip |-> TRUE, health |-> h]
    ELSE [skip |-> FALSE, health |-> [h EXCEPT ![k].state = HEALTH_STATE_HALF_OPEN]]

(* ------------------------------ SourceRouter --------------------------- *)

\* a sort key that leaves the pin out
sort_key_nopin(preferred, c, h) ==
    LET score == IF c.key \in DOMAIN h THEN h[c.key].score ELSE c.confidence * ScoreScale
        preferred_bonus == IF preferred # "" /\ preferred = c.provider THEN 1 ELSE 0
    IN  <<0, preferred_bonus * 1000 * ScoreScale + score, 0 - c.priority, c.discovered_at>>

\* sort_key of SourceRouter.rank; the score is held times ScoreScale
sort_key(preferred, c, h) ==
    LET score == IF c.key \in DOMAIN h THEN h[c.key].score ELSE c.confidence * ScoreScale
        preferred_bonus == IF preferred # "" /\ preferred = c.provider THEN 1 ELSE 0
    IN  <<IF c.is_pinned THEN 1 ELSE 0,
          preferred_bonus * 1000 * ScoreScale + score,
          0 - c.priority,
          c.discovered_at>>

\* tuple comparison a < b of two sort keys
RECURSIVE KeyLess(_, _)
KeyLess(a, b) ==
    IF a = <<>> THEN FALSE
    ELSE IF Head(a) # Head(b) THEN Head(a) < Head(b)
    ELSE KeyLess(Tail(a), Tail(b))

\* sorted(..., reverse=True) is stable: x goes behind every element whose
\* key is not smaller than its own
RECURSIVE InsertRanked(_, _, _, _)
InsertRanked(sorted, x, preferred, h) ==
    IF sorted = <<>> THEN <<x>>
    ELSE IF KeyLess(sort_key(preferred, Head(sorted), h), sort_key(preferred, x, h))
         THEN <<x>> \o sorted
    ELSE <<Head(sorted)>> \o InsertRanked(Tail(sorted), x, preferred, h)

\* SourceRouter.rank
RECURSIVE rank(_, _, _)
rank(preferred, cands, h) ==
    IF cands = <<>> THEN <<>>
    ELSE InsertRanked(rank(preferred, SubSeq(cands, 1, Len(cands) - 1), h),
                      cands[Len(cands)], preferred, h)

\* SourceRouter.pick_best: the first of rank, <<>> for None
pick_best(preferred, cands, h) ==
    LET ranked == rank(preferred, cands, h)
    IN  IF ranked # <<>> THEN <<ranked[1]>> ELSE <<>>

(* ------------------------------ SourceGateway -------------------------- *)

\* discover_candidates: the candidates with a key in D (what the providers
\* discover plus the stored active rows), in dedup order, ranked; the result
\* is the list of their keys
discover_candidates(D, preferred, h, t) ==
    LET found == SelectSeq(CandidateKeys, LAMBDA k : k \in D)
        cands == [i \in 1..Len(found) |-> Candidate(found[i], t)]
        ranked == rank(preferred, cands, h)
    IN  [i \in 1..Len(ranked) |-> ranked[i].key]

\* _fetch_with_retry: outs[1] and outs[2] are what the first and the second
\* provider.fetch invocation do.  calls is the number of invocations made,
\* slept whether time.sleep(retry_backoff_ms) ran.
_fetch_with_retry(outs, backoff_ms) ==
    LET first == outs[1]
        second == outs[2]
        e1 == classify_error(first)
        e2 == classify_error(second)
        should_retry == e1.error_kind \in {"TIMEOUT", "HTTP_5XX"}
    IN  IF first.type = "return" THEN
            [ok |-> TRUE, articles |-> first.articles, latency_ms |-> first.latency_ms,
             error_kind |-> "", error_message |-> "", calls |-> 1, slept |-> FALSE]
        ELSE IF should_retry /\ backoff_ms > 0 THEN
            IF second.type = "return" THEN
                [ok |-> TRUE, articles |-> second.articles,
                 latency_ms |-> first.latency_ms + backoff_ms + second.latency_ms,
                 error_kind |-> "", error_message |-> "", calls |-> 2, slept |-> TRUE]
            ELSE
                [ok |-> FALSE, articles |-> <<>>,
                 latency_ms |-> first.latency_ms + backoff_ms + second.latency_ms,
                 error_kind |-> e2.error_kind, error_message |-> e2.error_message,
                 calls |-> 2, slept |-> TRUE]
        ELSE
            [ok |-> FALSE, articles |-> <<>>, latency_ms |-> first.latency_ms,
             error_kind |-> e1.error_kind, error_message |-> e1.error_message,
             calls |-> 1, slept |-> FALSE]

(* -------------------------------- state -------------------------------- *)

VARIABLES
    now,                 \* utcnow(), in hours
    fail_threshold,      \* SourceHealthService.fail_threshold
    max_candidates,      \* SourceGateway.max_candidates
    retry_backoff_ms,    \* SourceGateway.retry_backoff_ms
    health,              \* source_health table: key -> row
    fetch_attempts,      \* fetch_attempts table, in insertion order
    preferred_provider,  \* Subscription.preferred_provider
    pc,                  \* position of the running fetch_with_failover call
    candidates,          \* its ranked candidate keys
    idx,                 \* index of the candidate the for loop is at
    attempts,            \* its local counter
    last_error_kind,     \* its local last_error_kind
    last_error_message,  \* its local last_error_message
    call_start,          \* Len(fetch_attempts) when the call began
    health0,             \* the health table when the call began
    io,                  \* provider calls of the call: probe, fetch, sleep
    result,              \* the SourceFetchResult it returned
    skip_ret,            \* last should_skip_for_circuit made by a direct caller
    discovered,          \* the keys every discovery of the subscription yields
    fetch_in,            \* _fetch_with_retry examined alone: what the two
                         \* invocations do, and
    fetch_out,           \* what it returned
    responses,           \* where the providers answer the same in every run: what
                         \* discover, probe and fetch do for each key
    rank_in,             \* SourceRouter examined alone: the subscription's preferred
                         \* provider, the candidates and the health map it is given, and
    rank_out,            \* what rank and pick_best returned
    article_refs,        \* DiscoveryOrchestrator: the article_refs rows of the subscription
                         \* that the database holds, by url, with the values the session has
                         \* given their objects
    new_refs,            \* the ArticleRef objects added to the session and not flushed yet
    refs_committed,      \* the article_refs rows as of the last commit
    integrity_error,     \* a flush met the unique constraint uq_article_ref_sub_url
    dpc,                 \* where a discover call stands
    d_idx,               \* the provider the loop of discover is at
    all_refs,            \* all_refs of discover
    d_last_error_kind,   \* last_error_kind of discover
    provider_notes,      \* provider_notes of discover: who was consulted, with what outcome
    disc_result,         \* the DiscoveryResult a discover call returned
    view_in,             \* view examined alone: the subscriptions, the articles and the
                         \* items of the run it finds after its sync, and its options
    view_out,            \* the items view shows
    resolve_out,         \* what _resolve_article_pk_by_day_id returned for a day-id
    cov_in,              \* CoverageService examined alone: the tables compute reads
    cov_out              \* the CoverageReport compute returned

VARIABLES
    rec_db,                     \* Recommender: the articles with their embedding and read state
    rec_profile,                \* the UserProfile build_user_profile returned
    rec_score,                  \* the RecommendationScore score returned
    sum_in,                     \* Summarizer: the article, and what the client and the page fetch give
    sum_out,                    \* the SummaryResult summarize returned
    feed,                       \* the entries of the feed the subscription's source serves
    web_provider,               \* WeChatWebDiscoveryProvider: _cache_date, _refs_by_official, _last_metrics
    session_vault,              \* the session the vault holds for the provider, if any
    web_out                     \* what the last search_for_subscription did

VARIABLES
    use_gateway,                \* SyncService.source_gateway is not None
    incremental_sync_enabled,   \* SyncService.incremental_sync_enabled
    sync_overlap_seconds,       \* SyncService.sync_overlap_seconds
    sub_ids,                    \* the ids of the subscriptions table, ascending
    subscriptions,              \* subscriptions table: id -> row
    articles,                   \* articles table: row i has id i
    article_summaries,          \* article_summaries table: article id -> row
    article_embeddings,         \* article ids with an article_embeddings row
    sync_runs,                  \* sync_runs table: row i has id i
    sync_run_items,             \* sync_run_items table, in insertion order
    spc,                        \* position of the running SyncService.sync
    cur,                        \* index in sub_ids of the subscription the loop is at
    last_success_map,           \* its local last_success_map
    new_article_ids,            \* its local new_article_ids
    summarize_calls,            \* the article ids it called summarizer.summarize for
    last_since,                 \* the since each subscription's latest fetch was given
    committed,                  \* the tables as of the last session.commit()
    source_mode,                \* Subscription.source_mode of the subscription whose
    subscription_sources        \* subscription_sources rows are examined: (provider, url) -> row

\* the source mode and the stored sources of a subscription, which sync itself
\* does not write
sourcevars == <<source_mode, subscription_sources>>

\* the configuration of SyncService and the subscriptions it runs over
syncconf == <<use_gateway, incremental_sync_enabled, sync_overlap_seconds, sub_ids, sourcevars>>

\* the tables SyncService writes
synctables == <<subscriptions, articles, article_summaries, article_embeddings,
                sync_runs, sync_run_items>>

synclocals == <<spc, cur, last_success_map, new_article_ids, summarize_calls>>

syncvars == <<syncconf, synctables, synclocals, last_since, committed>>

\* the state of the gateway and of the sync service
basevars == <<now, fail_threshold, max_candidates, retry_backoff_ms, health, fetch_attempts,
              preferred_provider, pc, candidates, idx, attempts, last_error_kind,
              last_error_message, call_start, health0, io, result, skip_ret, discovered,
              fetch_in, fetch_out, responses, syncvars>>

\* what SourceRouter is applied to on its own, and what it gave
rankvars == <<rank_in, rank_out>>

\* the state of the services that are examined on their own
\* DiscoveryOrchestrator: the table and the session, and the locals of a call
reftables == <<article_refs, new_refs, refs_committed, integrity_error>>

disclocals == <<dpc, d_idx, all_refs, d_last_error_kind, provider_notes, disc_result>>

discvars == <<reftables, disclocals>>

\* view and the day-ids
viewvars == <<view_in, view_out, resolve_out>>

\* CoverageService
covvars == <<cov_in, cov_out>>

\* Recommender and ReadStateService
recvars == <<rec_db, rec_profile, rec_score>>

\* Summarizer
sumvars == <<sum_in, sum_out>>

\* the feed behind TemplateFeedProvider
feedvars == <<feed>>

\* the services added to the ones above
\* WeChatWebDiscoveryProvider and the vault
webvars == <<web_provider, session_vault, web_out>>

morevars == <<recvars, sumvars, feedvars, webvars>>

\* the four services examined on their own first
servvars == <<rankvars, discvars, viewvars, covvars>>

\* everything but the state of the Recommender, and but that of the Summarizer
besidesrec == <<basevars, servvars, sumvars, feedvars, webvars>>
besidessum == <<basevars, servvars, recvars, feedvars, webvars>>
besidesweb == <<basevars, servvars, recvars, sumvars, feedvars>>

alonevars == <<rankvars, discvars, viewvars, covvars, morevars>>

vars == <<now, fail_threshold, max_candidates, retry_backoff_ms, health, fetch_attempts, preferred_provider, pc,
          candidates, idx, attempts, last_error_kind, last_error_message,
          call_start, health0, io, result, skip_ret, discovered, fetch_in, fetch_out,
          responses, alonevars, syncvars>>

callvars == <<candidates, idx, attempts, last_error_kind, last_error_message,
              call_start, health0, io, result>>

fixedvars == <<fail_threshold, max_candidates, discovered, fetch_in, fetch_out, responses, alonevars>>

NoResult == [returned |-> FALSE, ok |-> FALSE, candidate |-> "", articles |-> <<>>,
             error_kind |-> "", error_message |-> ""]

NoFetch == [ok |-> FALSE, articles |-> <<>>, latency_ms |-> 0, error_kind |-> "",
            error_message |-> "", calls |-> 0, slept |-> FALSE]

\* rank was not applied yet
NoRank == [rank_done |-> FALSE, ranked |-> <<>>, pick_done |-> FALSE, picked |-> <<>>]

\* no candidates for the Router on its own
NoRankIn == [preferred |-> "", cands |-> <<>>, health |-> <<>>]

\* SourceRouter is not examined on its own
RankIdle == rank_in = NoRankIn /\ rank_out = NoRank

\* no DiscoveryResult yet
NoDiscovery ==
    [returned |-> FALSE, ok |-> FALSE, refs |-> <<>>, channel_used |-> "", error_kind |-> "",
     status |-> ""]

\* no article_refs rows, and no discover call made
DiscIdle ==
    /\ article_refs = <<>>
    /\ new_refs = <<>>
    /\ refs_committed = <<>>
    /\ integrity_error = FALSE
    /\ dpc = "idle"
    /\ d_idx = 1
    /\ all_refs = <<>>
    /\ d_last_error_kind = "SEARCH_EMPTY"
    /\ provider_notes = <<>>
    /\ disc_result = NoDiscovery

\* view did not run
NoView == [done |-> FALSE, items |-> {}]

\* no day-id was resolved
NoResolve == [done |-> FALSE, day_id |-> 0, article_pk |-> <<>>]

\* view is not examined on its own
ViewIdle ==
    /\ view_in = [names |-> <<>>, articles |-> <<>>, status |-> <<>>, strict_live |-> FALSE]
    /\ view_out = NoView
    /\ resolve_out = NoResolve

\* compute did not run
NoReport ==
    [total_subs |-> 0, success_subs |-> 0, delayed_subs |-> 0, fail_subs |-> 0,
     coverage_ratio |-> 0, status_of |-> <<>>]

\* no report yet, and no coverage_daily row
NoCoverage == [done |-> FALSE, run |-> <<>>, report |-> NoReport, coverage_daily |-> <<>>]

\* CoverageService is not examined on its own
CovIdle ==
    /\ cov_in = [subscriptions |-> {}, started_at |-> <<>>, discovery_runs |-> <<>>]
    /\ cov_out = NoCoverage

\* no UserProfile yet
NoProfile == [built |-> FALSE, vector |-> <<>>, sample_size |-> 0]

\* no RecommendationScore yet
NoScore == [scored |-> FALSE]

\* Recommender is not examined on its own
RecIdle ==
    /\ rec_db = [now |-> 0, articles |-> <<>>]
    /\ rec_profile = NoProfile
    /\ rec_score = NoScore

\* no SummaryResult yet
NoSummary == [done |-> FALSE, summary_text |-> <<>>, model |-> "", used_fallback |-> FALSE]

\* the Summarizer is not examined on its own
SumIdle ==
    /\ sum_in = [client |-> FALSE, llm |-> <<>>, full_text |-> <<>>, title |-> <<>>,
                 content_excerpt |-> <<>>]
    /\ sum_out = NoSummary

\* no feed is examined
FeedIdle == feed = <<>>

\* a WeChatWebDiscoveryProvider as __init__ leaves it
NewWebProvider ==
    [_cache_date |-> <<>>,
     _refs_by_official |-> <<>>,
     _last_metrics |-> [sync_batches |-> 0, article_refs_extracted |-> 0, blocked_by_auth |-> 0]]

\* no search_for_subscription yet
NoSearch == [type |-> "", target_date |-> 0, refs |-> <<>>, message |-> "", synced |-> FALSE]

\* the WeChatWebDiscoveryProvider is not examined
WebIdle ==
    /\ web_provider = NewWebProvider
    /\ session_vault = <<>>
    /\ web_out = NoSearch

MoreIdle == RecIdle /\ SumIdle /\ FeedIdle /\ WebIdle

\* the services examined on their own are not used
ServicesIdle == RankIdle /\ DiscIdle /\ ViewIdle /\ CovIdle /\ MoreIdle

\* an empty database and no call running
InitDB ==
    /\ now = 0
    /\ health = <<>>
    /\ fetch_attempts = <<>>
    /\ preferred_provider = ""
    /\ pc = "idle"
    /\ candidates = <<>>
    /\ idx = 1
    /\ attempts = 0
    /\ last_error_kind = "UNKNOWN"
    /\ last_error_message = "unknown error"
    /\ call_start = 0
    /\ health0 = <<>>
    /\ io = <<>>
    /\ result = NoResult
    /\ skip_ret = [key |-> "", skip |-> FALSE]
    /\ fetch_out = NoFetch

\* a subscription as `add` leaves it: no source resolved yet
NewSubscription ==
    [source_status |-> SOURCE_STATUS_PENDING, last_error |-> "", source_url |-> "",
     preferred_provider |-> ""]

\* the tables a session reads and writes, as one record
Tables ==
    [subscriptions |-> subscriptions, articles |-> articles,
     article_summaries |-> article_summaries, article_embeddings |-> article_embeddings,
     sync_runs |-> sync_runs, sync_run_items |-> sync_run_items,
     health |-> health, fetch_attempts |-> fetch_attempts,
     preferred_provider |-> preferred_provider]

\* the subscriptions exist, nothing was synced yet, no sync running; sub_ids
\* is set by the specification's initial condition
InitTables ==
    /\ subscriptions = [i \in {sub_ids[j] : j \in DOMAIN sub_ids} |-> NewSubscription]
    /\ articles = <<>>
    /\ article_summaries = <<>>
    /\ article_embeddings = {}
    /\ sync_runs = <<>>
    /\ sync_run_items = <<>>
    /\ spc = "idle"
    /\ cur = 1
    /\ last_success_map = <<>>
    /\ new_article_ids = <<>>
    /\ summarize_calls = <<>>
    /\ last_since = <<>>
    /\ committed = Tables
    /\ source_mode = SOURCE_MODE_AUTO
    /\ subscription_sources = <<>>

\* SyncService as cli._build_runtime builds it around one subscription,
\* where only the gateway is examined
OneSubscription ==
    /\ use_gateway = TRUE
    /\ incremental_sync_enabled = TRUE
    /\ sync_overlap_seconds = 0
    /\ sub_ids = <<1>>
    /\ InitTables

\* fail_threshold and max_candidates are what the constructors of
\* SourceHealthService and SourceGateway make of their arguments
Init ==
    /\ InitDB
    /\ OneSubscription
    /\ fail_threshold \in {Max(n, 1) : n \in 0..MaxFailThreshold}
    /\ max_candidates \in {Max(n, 1) : n \in 0..MaxMaxCandidates}
    /\ retry_backoff_ms = 800
    /\ discovered \in SUBSET OneTemplateKeys
    /\ fetch_in = <<Returns, Returns>>
    /\ responses = <<>>
    /\ ServicesIdle

(* ------------------------- fetch_with_failover ------------------------- *)

Failure(k, kind, message) ==
    [returned |-> TRUE, ok |-> FALSE, candidate |-> k, articles |-> <<>>,
     error_kind |-> kind, error_message |-> message]

\* lines 606-627: discover; without candidates return the NOT_FOUND placeholder
Start ==
    /\ pc = "idle"
    /\ Len(fetch_attempts) < MaxLog
    /\ LET found == discover_candidates(discovered, preferred_provider, health, now) IN
       /\ candidates' = found
       /\ IF found = <<>>
          THEN /\ result' = Failure("", "NOT_FOUND", "no candidate source")
               /\ pc' = "done"
          ELSE /\ result' = NoResult
               /\ pc' = "loop"
    /\ idx' = 1
    /\ attempts' = 0
    /\ last_error_kind' = "UNKNOWN"
    /\ last_error_message' = "unknown error"
    /\ call_start' = Len(fetch_attempts)
    /\ health0' = health
    /\ io' = <<>>
    /\ UNCHANGED <<now, retry_backoff_ms, health, fetch_attempts, preferred_provider,
                   skip_ret, fixedvars, syncvars>>

\* the for loop with the break taken one candidate late
LoopContinues_late(i, cands, n, limit) == i <= Len(cands) /\ n <= limit

\* lines 628-630: the for loop has a next candidate and does not break
LoopContinues(i, cands, n, limit) == i <= Len(cands) /\ n < limit

\* the for loop is over, by exhaustion or by the break at line 630: lines 686-693
LoopExhausted ==
    /\ pc = "loop"
    /\ ~LoopContinues(idx, candidates, attempts, max_candidates)
    /\ result' = Failure(candidates[1], last_error_kind, last_error_message)
    /\ pc' = "done"
    /\ UNCHANGED <<now, retry_backoff_ms, health, fetch_attempts, preferred_provider,
                   candidates, idx, attempts, last_error_kind, last_error_message,
                   call_start, health0, io, skip_ret, fixedvars, syncvars>>

\* lines 631-634: the candidate's provider is not registered
LoopNoProvider ==
    /\ pc = "loop"
    /\ LoopContinues(idx, candidates, attempts, max_candidates)
    /\ ProviderOf(candidates[idx]) \notin Providers
    /\ attempts' = attempts + 1
    /\ idx' = idx + 1
    /\ UNCHANGED <<now, retry_backoff_ms, health, fetch_attempts, preferred_provider, pc,
                   candidates, last_error_kind, last_error_message, call_start, health0, io,
                   result, skip_ret, fixedvars, syncvars>>

\* lines 636-646: the circuit is open, record SKIPPED and go on
LoopCircuitSkip ==
    /\ pc = "loop"
    /\ LoopContinues(idx, candidates, attempts, max_candidates)
    /\ ProviderOf(candidates[idx]) \in Providers
    /\ LET k == candidates[idx]
           check == should_skip_for_circuit(health, k, now)
           rec == record_attempt(check.health, fetch_attempts, k, FETCH_STATUS_SKIPPED, 0,
                                 "CIRCUIT_OPEN", "circuit cooling down", now, fail_threshold)
       IN  /\ check.skip
           /\ health' = rec.health
           /\ fetch_attempts' = rec.fetch_attempts
    /\ attempts' = attempts + 1
    /\ idx' = idx + 1
    /\ UNCHANGED <<now, retry_backoff_ms, preferred_provider, pc, candidates,
                   last_error_kind, last_error_message, call_start, health0, io, result, skip_ret, fixedvars, syncvars>>

\* line 636 answers false (moving OPEN to HALF_OPEN when the cooldown is over)
LoopProceed ==
    /\ pc = "loop"
    /\ LoopContinues(idx, candidates, attempts, max_candidates)
    /\ ProviderOf(candidates[idx]) \in Providers
    /\ LET check == should_skip_for_circuit(health, candidates[idx], now) IN
           /\ ~check.skip
           /\ health' = check.health
    /\ attempts' = attempts + 1
    /\ pc' = "probe"
    /\ UNCHANGED <<now, retry_backoff_ms, fetch_attempts, preferred_provider, candidates, idx,
                   last_error_kind, last_error_message, call_start, health0, io, result, skip_ret, fixedvars, syncvars>>

\* lines 648-661: provider.probe(candidate) returns pr
Probe(pr) ==
    /\ pc = "probe"
    /\ LET k == candidates[idx]
           kind == OrElse(pr.error_kind, "UNKNOWN")
           message == OrElse(pr.error_message, "probe failed")
           rec == record_attempt(health, fetch_attempts, k, FETCH_STATUS_FAILED,
                                 pr.latency_ms, kind, message, now, fail_threshold)
       IN  /\ io' = Append(io, [op |-> "probe", key |-> k,
                                kind |-> IF pr.ok THEN "ok" ELSE pr.error_kind])
           /\ IF pr.ok
              THEN /\ pc' = "fetch"
                   /\ UNCHANGED <<health, fetch_attempts, idx, last_error_kind,
                                  last_error_message>>
              ELSE /\ last_error_kind' = kind
                   /\ last_error_message' = message
                   /\ health' = rec.health
                   /\ fetch_attempts' = rec.fetch_attempts
                   /\ idx' = idx + 1
                   /\ pc' = "loop"
    /\ UNCHANGED <<now, retry_backoff_ms, preferred_provider, candidates, attempts,
                   call_start, health0, result, skip_ret, fixedvars, syncvars>>

\* provider.fetch(candidate) reads the candidate's feed: its articles carry
\* the key they were fetched from
FeedOf(k, out) ==
    [out EXCEPT !.articles = [i \in DOMAIN out.articles |->
                                 [source |-> k, external_id |-> out.articles[i]]]]

\* the provider calls _fetch_with_retry makes on k when the invocations do outs
FetchCalls(k, outs, r) ==
    LET call(o) == [op |-> "fetch", key |-> k,
                    kind |-> IF o.type = "return" THEN "ok" ELSE classify_error(o).error_kind]
    IN  <<call(outs[1])>>
        \o (IF r.slept THEN <<[op |-> "sleep", key |-> k, kind |-> ""]>> ELSE <<>>)
        \o (IF r.calls = 2 THEN <<call(outs[2])>> ELSE <<>>)

\* Fetch that records a FAILED for each invocation that failed
Fetch_eachfailure(outs) ==
    /\ pc = "fetch"
    /\ LET k == candidates[idx]
           r == _fetch_with_retry(<<FeedOf(k, outs[1]), FeedOf(k, outs[2])>>, retry_backoff_ms)
           kind == OrElse(r.error_kind, "UNKNOWN")
           message == OrElse(r.error_message, "fetch failed")
           recOk == record_attempt(health, fetch_attempts, k, FETCH_STATUS_SUCCESS,
                                   r.latency_ms, "", "", now, fail_threshold)
           recOnce == record_attempt(health, fetch_attempts, k, FETCH_STATUS_FAILED,
                                     r.latency_ms, kind, message, now, fail_threshold)
           recFail == IF r.calls = 2
                      THEN record_attempt(recOnce.health, recOnce.fetch_attempts, k,
                                          FETCH_STATUS_FAILED, r.latency_ms, kind, message,
                                          now, fail_threshold)
                      ELSE recOnce
       IN  /\ io' = io \o FetchCalls(k, outs, r)
           /\ IF r.ok
              THEN /\ health' = recOk.health
                   /\ fetch_attempts' = recOk.fetch_attempts
                   /\ result' = [returned |-> TRUE, ok |-> TRUE, candidate |-> k,
                                 articles |-> r.articles, error_kind |-> "",
                                 error_message |-> ""]
                   /\ pc' = "done"
                   /\ UNCHANGED <<idx, last_error_kind, last_error_message>>
              ELSE /\ last_error_kind' = kind
                   /\ last_error_message' = message
                   /\ health' = recFail.health
                   /\ fetch_attempts' = recFail.fetch_attempts
                   /\ idx' = idx + 1
                   /\ pc' = "loop"
                   /\ UNCHANGED result
    /\ UNCHANGED <<now, retry_backoff_ms, preferred_provider, candidates, attempts,
                   call_start, health0, skip_ret, fixedvars, syncvars>>

\* Fetch that records the SUCCESS and goes on to the next candidate
Fetch_goeson(outs) ==
    /\ pc = "fetch"
    /\ LET k == candidates[idx]
           r == _fetch_with_retry(<<FeedOf(k, outs[1]), FeedOf(k, outs[2])>>, retry_backoff_ms)
           kind == OrElse(r.error_kind, "UNKNOWN")
           message == OrElse(r.error_message, "fetch failed")
           recOk == record_attempt(health, fetch_attempts, k, FETCH_STATUS_SUCCESS,
                                   r.latency_ms, "", "", now, fail_threshold)
           recFail == record_attempt(health, fetch_attempts, k, FETCH_STATUS_FAILED,
                                     r.latency_ms, kind, message, now, fail_threshold)
       IN  /\ io' = io \o FetchCalls(k, outs, r)
           /\ IF r.ok
              THEN /\ health' = recOk.health
                   /\ fetch_attempts' = recOk.fetch_attempts
                   /\ UNCHANGED <<last_error_kind, last_error_message>>
              ELSE /\ last_error_kind' = kind
                   /\ last_error_message' = message
                   /\ health' = recFail.health
                   /\ fetch_attempts' = recFail.fetch_attempts
           /\ idx' = idx + 1
           /\ pc' = "loop"
           /\ UNCHANGED result
    /\ UNCHANGED <<now, retry_backoff_ms, preferred_provider, candidates, attempts,
                   call_start, health0, skip_ret, fixedvars, syncvars>>

\* lines 663-684: _fetch_with_retry, then record SUCCESS and return, or
\* record FAILED and go on
Fetch(outs) ==
    /\ pc = "fetch"
    /\ LET k == candidates[idx]
           r == _fetch_with_retry(<<FeedOf(k, outs[1]), FeedOf(k, outs[2])>>, retry_backoff_ms)
           kind == OrElse(r.error_kind, "UNKNOWN")
           message == OrElse(r.error_message, "fetch failed")
           recOk == record_attempt(health, fetch_attempts, k, FETCH_STATUS_SUCCESS,
                                   r.latency_ms, "", "", now, fail_threshold)
           recFail == record_attempt(health, fetch_attempts, k, FETCH_STATUS_FAILED,
                                     r.latency_ms, kind, message, now, fail_threshold)
       IN  /\ io' = io \o FetchCalls(k, outs, r)
           /\ IF r.ok
              THEN /\ health' = recOk.health
                   /\ fetch_attempts' = recOk.fetch_attempts
                   /\ result' = [returned |-> TRUE, ok |-> TRUE, candidate |-> k,
                                 articles |-> r.articles, error_kind |-> "",
                                 error_message |-> ""]
                   /\ pc' = "done"
                   /\ UNCHANGED <<idx, last_error_kind, last_error_message>>
              ELSE /\ last_error_kind' = kind
                   /\ last_error_message' = message
                   /\ health' = recFail.health
                   /\ fetch_attempts' = recFail.fetch_attempts
                   /\ idx' = idx + 1
                   /\ pc' = "loop"
                   /\ UNCHANGED result
    /\ UNCHANGED <<now, retry_backoff_ms, preferred_provider, candidates, attempts,
                   call_start, health0, skip_ret, fixedvars, syncvars>>

\* _sync_subscription_v2 takes the result: a success makes the chosen
\* candidate's provider the preferred one
Return ==
    /\ pc = "done"
    /\ preferred_provider' = IF result.ok /\ result.candidate # ""
                             THEN ProviderOf(result.candidate)
                             ELSE preferred_provider
    /\ pc' = "idle"
    /\ candidates' = <<>>
    /\ idx' = 1
    /\ attempts' = 0
    /\ last_error_kind' = "UNKNOWN"
    /\ last_error_message' = "unknown error"
    /\ call_start' = 0
    /\ health0' = <<>>
    /\ io' = <<>>
    /\ result' = NoResult
    /\ UNCHANGED <<now, retry_backoff_ms, health, fetch_attempts, skip_ret, fixedvars, syncvars>>

(* --------------------- direct callers of the service ------------------- *)

\* record_attempt called on its own, as the health service's tests do
RecordAttempt(k, status) ==
    /\ pc = "idle"
    /\ Len(fetch_attempts) < MaxLog
    /\ LET kind == IF status = FETCH_STATUS_FAILED THEN "HTTP_5XX"
                   ELSE IF status = FETCH_STATUS_SKIPPED THEN "CIRCUIT_OPEN" ELSE ""
           message == IF status = FETCH_STATUS_FAILED THEN "503" ELSE ""
           rec == record_attempt(health, fetch_attempts, k, status, 0, kind, message, now, fail_threshold)
       IN  /\ health' = rec.health
           /\ fetch_attempts' = rec.fetch_attempts
    /\ UNCHANGED <<now, retry_backoff_ms, preferred_provider, pc, callvars, skip_ret, fixedvars, syncvars>>

\* should_skip_for_circuit called on its own
ShouldSkip(k) ==
    /\ pc = "idle"
    /\ LET check == should_skip_for_circuit(health, k, now) IN
           /\ health' = check.health
           /\ skip_ret' = [key |-> k, skip |-> check.skip]
    /\ UNCHANGED <<now, retry_backoff_ms, fetch_attempts, preferred_provider, pc, callvars, fixedvars, syncvars>>

\* time passes; a call lasts less than one hour of the clock, and so does a
\* sync run
Tick ==
    /\ pc = "idle"
    /\ spc = "idle"
    /\ now < MaxTime
    /\ now' = now + 1
    /\ UNCHANGED <<retry_backoff_ms, health, fetch_attempts, preferred_provider, pc,
                   callvars, skip_ret, fixedvars, syncvars>>

Next ==
    \/ Start
    \/ LoopExhausted
    \/ LoopNoProvider
    \/ LoopCircuitSkip
    \/ LoopProceed
    \/ \E pr \in ProbeResults : Probe(pr)
    \/ \E o1 \in FetchOutcomes, o2 \in FetchOutcomes : Fetch(<<o1, o2>>)
    \/ Return
    \/ Tick

\* the program: sync runs calling fetch_with_failover while time passes
Spec == Init /\ [][Next]_vars

\* the candidates the direct callers pass
DirectKeys == {"manual_u", "mirror_u"}

HealthNext ==
    \/ \E k \in DirectKeys, status \in {FETCH_STATUS_SUCCESS, FETCH_STATUS_FAILED, FETCH_STATUS_SKIPPED} :
           RecordAttempt(k, status)
    \/ \E k \in DirectKeys : ShouldSkip(k)
    \/ Tick

HealthInit ==
    /\ InitDB
    /\ OneSubscription
    /\ fail_threshold \in {Max(n, 1) : n \in 0..MaxFailThreshold}
    /\ max_candidates = 1
    /\ retry_backoff_ms = 800
    /\ discovered = {}
    /\ fetch_in = <<Returns, Returns>>
    /\ responses = <<>>
    /\ ServicesIdle

\* SourceHealthService driven directly through its two public methods
HealthSpec == HealthInit /\ [][HealthNext]_vars

\* _fetch_with_retry applied to what the two invocations do
FetchWithRetry ==
    /\ fetch_out = NoFetch
    /\ fetch_out' = _fetch_with_retry(fetch_in, retry_backoff_ms)
    /\ UNCHANGED <<now, fail_threshold, max_candidates, retry_backoff_ms, health,
                   fetch_attempts, preferred_provider, pc, callvars, skip_ret,
                   discovered, fetch_in, responses, alonevars, syncvars>>

RetryInit ==
    /\ InitDB
    /\ OneSubscription
    /\ fail_threshold = 1
    /\ max_candidates = 1
    /\ retry_backoff_ms \in {0, 800}
    /\ discovered = {}
    /\ fetch_in \in AllFetchOutcomes \X AllFetchOutcomes
    /\ responses = <<>>
    /\ ServicesIdle

\* _fetch_with_retry on its own, for every pair of invocation outcomes and
\* with and without a backoff
RetrySpec == RetryInit /\ [][FetchWithRetry]_vars

(* ------------------------------ SyncService ---------------------------- *)

\* local_day_bounds_utc(target_date)[0] of the target date of the runs
day_start == 0

\* RawArticle as a feed yields it
RawArticle(external_id, title, url, published_at, content_excerpt, raw_hash) ==
    [external_id |-> external_id, title |-> title, url |-> url,
     published_at |-> published_at, content_excerpt |-> content_excerpt,
     raw_hash |-> raw_hash]

\* what a feed returns: an article, or the same external_id seen again with
\* another title, url and time and no excerpt, next to a second article
Payloads ==
    { <<RawArticle("e1", "t1", "u1", 1, "x1", "h1")>>,
      <<RawArticle("e1", "t2", "u2", 2, "", ""), RawArticle("e2", "t3", "u3", 1, "x3", "h3")>> }

\* resolver.resolve(sub): ResolveResult(ok, source_url, error)
ResolveResults ==
    { [ok |-> TRUE,  source_url |-> "u1", error |-> ""],
      [ok |-> FALSE, source_url |-> "",   error |-> "source not found"],
      [ok |-> FALSE, source_url |-> "",   error |-> ""] }

\* fetcher.fetch(source_url, since): it returns articles or raises; db_error
\* says that the session's next flush raises, which is examined on the
\* gateway path
FetchReturns == [type : {"return"}, articles : Payloads, message : {""}, db_error : {FALSE}]
FetchRaises == [type : {"raise"}, articles : {<<>>}, message : {"boom"}, db_error : {FALSE}]

\* what fetch_with_failover returns to _sync_subscription_v2
GatewayResults ==
    [ok : {TRUE}, url : {"mirror_u"}, provider : {RSSHUB_MIRROR_PROVIDER}, articles : Payloads,
     error_kind : {""}, error_message : {""}, db_error : BOOLEAN]
    \cup
    { [ok |-> FALSE, url |-> "mirror_u", provider |-> RSSHUB_MIRROR_PROVIDER, articles |-> <<>>,
       error_kind |-> "TIMEOUT", error_message |-> "timed out", db_error |-> FALSE],
      [ok |-> FALSE, url |-> "", provider |-> "none", articles |-> <<>>,
       error_kind |-> "NOT_FOUND", error_message |-> "no candidate source", db_error |-> FALSE] }

\* Summarizer.summarize without a client: the fallback summary is made of
\* the title and the excerpt
summarize(raw) ==
    [summary_text |-> <<raw.title, raw.content_excerpt>>, model |-> "fallback"]

\* _needs_refresh: a summary made of a title alone is too short
_needs_refresh(summary_text, model) == summary_text[2] = ""

\* the id of the article of subscription sub with this external_id, 0 if none
ArticleId(arts, sub, external_id) ==
    IF \E i \in 1..Len(arts) : arts[i].subscription_id = sub /\ arts[i].external_id = external_id
    THEN CHOOSE i \in 1..Len(arts) :
             arts[i].subscription_id = sub /\ arts[i].external_id = external_id
    ELSE 0

\* _upsert_article that takes the observed title for an existing article too
_upsert_article_retitle(T, sub, raw, t, db_error) ==
    LET existing == ArticleId(T.articles, sub, raw.external_id)
        id == Len(T.articles) + 1
        article == [subscription_id |-> sub, external_id |-> raw.external_id,
                    title |-> raw.title, url |-> raw.url, published_at |-> raw.published_at,
                    fetched_at |-> t, content_excerpt |-> raw.content_excerpt,
                    raw_hash |-> raw.raw_hash]
    IN  IF existing # 0 THEN
            [T |-> [T EXCEPT !.articles[existing].published_at = raw.published_at,
                             !.articles[existing].title = raw.title],
             id |-> 0, raised |-> FALSE]
        ELSE IF db_error THEN [T |-> T, id |-> 0, raised |-> TRUE]
        ELSE
            [T |-> [T EXCEPT !.articles = Append(T.articles, article),
                             !.article_summaries = Append(T.article_summaries, summarize(raw)),
                             !.summarize_calls = Append(T.summarize_calls, id),
                             !.article_embeddings = T.article_embeddings \cup {id}],
             id |-> id, raised |-> FALSE]

\* _upsert_article on the tables T at time t: the tables after it, the id of
\* the article it inserted (0 where the code returns None), and whether the
\* flush of the insert raised
_upsert_article(T, sub, raw, t, db_error) ==
    LET existing == ArticleId(T.articles, sub, raw.external_id)
        row == T.articles[existing]
        updated == [row EXCEPT
                       !.published_at = raw.published_at,
                       !.content_excerpt = IF raw.content_excerpt # "" /\ row.content_excerpt # raw.content_excerpt
                                           THEN raw.content_excerpt ELSE row.content_excerpt,
                       !.raw_hash = IF raw.raw_hash # "" /\ row.raw_hash # raw.raw_hash
                                    THEN raw.raw_hash ELSE row.raw_hash]
        article == [subscription_id |-> sub, external_id |-> raw.external_id,
                    title |-> raw.title, url |-> raw.url, published_at |-> raw.published_at,
                    fetched_at |-> t, content_excerpt |-> raw.content_excerpt,
                    raw_hash |-> raw.raw_hash]
        id == Len(T.articles) + 1
    IN  IF existing # 0 THEN
            [T |-> [T EXCEPT !.articles[existing] = updated], id |-> 0, raised |-> FALSE]
        ELSE IF db_error THEN
            [T |-> T, id |-> 0, raised |-> TRUE]
        ELSE
            [T |-> [T EXCEPT !.articles = Append(T.articles, article),
                             !.article_summaries = Append(T.article_summaries, summarize(raw)),
                             !.summarize_calls = Append(T.summarize_calls, id),
                             !.article_embeddings = T.article_embeddings \cup {id}],
             id |-> id, raised |-> FALSE]

\* the loop of _record_success_items over raw_articles from index i on, with
\* new_count so far
RECURSIVE UpsertAll(_, _, _, _, _, _, _)
UpsertAll(T, sub, raw_articles, i, new_count, t, db_error) ==
    IF i > Len(raw_articles) THEN [T |-> T, new_count |-> new_count, raised |-> FALSE]
    ELSE LET u == _upsert_article(T, sub, raw_articles[i], t, db_error) IN
         IF u.raised THEN [T |-> u.T, new_count |-> new_count, raised |-> TRUE]
         ELSE IF u.id = 0 THEN UpsertAll(u.T, sub, raw_articles, i + 1, new_count, t, db_error)
         ELSE UpsertAll([u.T EXCEPT !.new_article_ids = Append(u.T.new_article_ids, u.id)],
                        sub, raw_articles, i + 1, new_count + 1, t, db_error)

SyncRunItem(run_id, sub, status, new_count, error_message) ==
    [sync_run_id |-> run_id, subscription_id |-> sub, status |-> status,
     new_count |-> new_count, error_message |-> error_message]

\* RecordFailure that adds the item without counting it
RecordFailure_nocount(T, run_id, sub, error_message) ==
    [T EXCEPT !.sync_run_items = Append(@, SyncRunItem(run_id, sub, SYNC_ITEM_STATUS_FAILED,
                                                       0, error_message))]

\* the FAILED bookkeeping both paths share: count it and add the item
RecordFailure(T, run_id, sub, error_message) ==
    [T EXCEPT !.sync_runs[run_id].fail_count = @ + 1,
              !.sync_run_items = Append(@, SyncRunItem(run_id, sub, SYNC_ITEM_STATUS_FAILED,
                                                       0, error_message))]

\* _record_success_items: the tables after it and whether it raised
_record_success_items(T, run_id, sub, raw_articles, t, db_error) ==
    LET u == UpsertAll(T, sub, raw_articles, 1, 0, t, db_error) IN
    IF u.raised THEN [T |-> u.T, raised |-> TRUE]
    ELSE [T |-> [u.T EXCEPT !.sync_runs[run_id].success_count = @ + 1,
                            !.sync_run_items = Append(@, SyncRunItem(run_id, sub,
                                                   SYNC_ITEM_STATUS_SUCCESS, u.new_count, ""))],
          raised |-> FALSE]

\* the message both paths give a failure that brought none (line 138, 195)
DefaultError == "no usable public source matched"

\* _sync_subscription_v1 for subscription sub, given what resolver.resolve
\* and fetcher.fetch do; None is the empty string
_sync_subscription_v1(T, run_id, sub, rr, fo, t) ==
    IF ~rr.ok \/ rr.source_url = "" THEN
        LET last_error == IF rr.error # "" THEN rr.error ELSE DefaultError
            T1 == [T EXCEPT !.subscriptions[sub].source_status = SOURCE_STATUS_MATCH_FAILED,
                            !.subscriptions[sub].last_error = last_error]
        IN  [T |-> RecordFailure(T1, run_id, sub, last_error), raised |-> FALSE]
    ELSE
        LET T1 == [T EXCEPT !.subscriptions[sub].source_url = rr.source_url,
                            !.subscriptions[sub].source_status = SOURCE_STATUS_ACTIVE,
                            !.subscriptions[sub].last_error = ""]
        IN  IF fo.type = "raise" THEN
                [T |-> RecordFailure([T1 EXCEPT !.subscriptions[sub].last_error = fo.message],
                                     run_id, sub, fo.message),
                 raised |-> FALSE]
            ELSE _record_success_items(T1, run_id, sub, fo.articles, t, fo.db_error)

\* _sync_subscription_v2 for subscription sub, given the SourceFetchResult
\* fetch_with_failover returned
_sync_subscription_v2(T, run_id, sub, fetch_result, t) ==
    IF ~fetch_result.ok \/ fetch_result.url = "" THEN
        LET last_error == IF fetch_result.error_message # "" THEN fetch_result.error_message
                          ELSE DefaultError
            kind == IF fetch_result.error_kind # "" THEN fetch_result.error_kind ELSE "UNKNOWN"
            T1 == [T EXCEPT !.subscriptions[sub].source_status = SOURCE_STATUS_MATCH_FAILED,
                            !.subscriptions[sub].last_error = last_error]
        IN  [T |-> RecordFailure(T1, run_id, sub, <<kind, last_error>>), raised |-> FALSE]
    ELSE
        LET T1 == [T EXCEPT !.subscriptions[sub].source_url = fetch_result.url,
                            !.subscriptions[sub].preferred_provider = fetch_result.provider,
                            !.subscriptions[sub].source_status = SOURCE_STATUS_ACTIVE,
                            !.subscriptions[sub].last_error = ""]
        IN  _record_success_items(T1, run_id, sub, fetch_result.articles, t, fetch_result.db_error)

\* the RawArticle _refresh_low_quality_summaries rebuilds from an Article row
RawOfArticle(article) ==
    RawArticle(article.external_id, article.title, article.url, article.published_at,
               article.content_excerpt,
               IF article.raw_hash # "" THEN article.raw_hash ELSE article.external_id)

\* the loop of _refresh_low_quality_summaries over article_ids from index i on
RECURSIVE RefreshFrom(_, _, _)
RefreshFrom(T, article_ids, i) ==
    IF i > Len(article_ids) THEN T
    ELSE LET id == article_ids[i]
             summary == T.article_summaries[id]
         IN  IF ~_needs_refresh(summary.summary_text, summary.model)
             THEN RefreshFrom(T, article_ids, i + 1)
             ELSE RefreshFrom([T EXCEPT !.article_summaries[id] = summarize(RawOfArticle(T.articles[id])),
                                        !.summarize_calls = Append(@, id)],
                              article_ids, i + 1)

\* _refresh_low_quality_summaries going over every article of the table
_refresh_low_quality_summaries_all(T, article_ids) ==
    RefreshFrom(T, [i \in 1..Len(T.articles) |-> i], 1)

_refresh_low_quality_summaries(T, article_ids) == RefreshFrom(T, article_ids, 1)

\* _last_success_time_by_subscription: for each subscription with a SUCCESS
\* item in a finished run, the latest finished_at of such a run
_last_success_time_by_subscription(runs, items) ==
    LET rows == {i \in 1..Len(items) :
                    /\ items[i].status = SYNC_ITEM_STATUS_SUCCESS
                    /\ runs[items[i].sync_run_id].finished_at # <<>>}
        at(i) == runs[items[i].sync_run_id].finished_at[1]
    IN  [sub \in {items[i].subscription_id : i \in rows} |->
            CHOOSE v \in {at(i) : i \in rows} :
                /\ \E i \in rows : items[i].subscription_id = sub /\ at(i) = v
                /\ \A i \in rows : items[i].subscription_id = sub => at(i) <= v]

\* Since without the lower bound of the day
Since_nomax(sub) ==
    IF incremental_sync_enabled /\ sub \in DOMAIN last_success_map
    THEN last_success_map[sub] - sync_overlap_seconds
    ELSE day_start

\* lines 60-65: the since of subscription sub
Since(sub) ==
    IF incremental_sync_enabled /\ sub \in DOMAIN last_success_map
    THEN Max(day_start, last_success_map[sub] - sync_overlap_seconds)
    ELSE day_start

\* what the session holds, with the run's two lists
Session ==
    [subscriptions |-> subscriptions, articles |-> articles,
     article_summaries |-> article_summaries, article_embeddings |-> article_embeddings,
     sync_runs |-> sync_runs, sync_run_items |-> sync_run_items,
     new_article_ids |-> new_article_ids, summarize_calls |-> summarize_calls]

SetSession(T) ==
    /\ subscriptions' = T.subscriptions
    /\ articles' = T.articles
    /\ article_summaries' = T.article_summaries
    /\ article_embeddings' = T.article_embeddings
    /\ sync_runs' = T.sync_runs
    /\ sync_run_items' = T.sync_run_items
    /\ new_article_ids' = T.new_article_ids
    /\ summarize_calls' = T.summarize_calls

gatewayvars == <<fail_threshold, max_candidates, retry_backoff_ms, health, fetch_attempts,
                 preferred_provider, pc, callvars, skip_ret, discovered, fetch_in, fetch_out,
                 responses, alonevars>>

\* lines 50-58: the run row is added and flushed, the map of last successes
\* read, the subscriptions loaded
SyncStart ==
    /\ spc = "idle"
    /\ pc = "idle"
    /\ Len(sync_runs) < MaxRuns
    /\ sync_runs' = Append(sync_runs, [trigger |-> "view", started_at |-> now, finished_at |-> <<>>,
                                       success_count |-> 0, fail_count |-> 0])
    /\ last_success_map' = _last_success_time_by_subscription(sync_runs', sync_run_items)
    /\ new_article_ids' = <<>>
    /\ summarize_calls' = <<>>
    /\ cur' = 1
    /\ spc' = "loop"
    /\ UNCHANGED <<now, gatewayvars, syncconf, subscriptions, articles, article_summaries,
                   article_embeddings, sync_run_items, last_since, committed>>

\* one turn of the loop of lines 59-72 has ended: on to the next subscription,
\* or out of sync with the exception
LoopTurn(r, sub) ==
    /\ SetSession(r.T)
    /\ last_since' = [s \in DOMAIN last_since \cup {sub} |->
                          IF s = sub THEN Since(sub) ELSE last_since[s]]
    /\ IF r.raised THEN spc' = "raised" /\ cur' = cur
                   ELSE spc' = "loop" /\ cur' = cur + 1
    /\ UNCHANGED <<syncconf, last_success_map, committed>>

\* one turn of the loop on the resolver and fetcher path
SyncSubscriptionV1(rr, fo) ==
    /\ spc = "loop"
    /\ cur <= Len(sub_ids)
    /\ ~use_gateway
    /\ LoopTurn(_sync_subscription_v1(Session, Len(sync_runs), sub_ids[cur], rr, fo, now), sub_ids[cur])
    /\ UNCHANGED <<now, gatewayvars>>

\* one turn of the loop on the gateway path, for what the gateway returned
SyncSubscriptionV2(fetch_result) ==
    /\ spc = "loop"
    /\ cur <= Len(sub_ids)
    /\ use_gateway
    /\ LoopTurn(_sync_subscription_v2(Session, Len(sync_runs), sub_ids[cur], fetch_result, now), sub_ids[cur])
    /\ UNCHANGED <<now, gatewayvars>>

\* lines 74-78: the summaries of the run's new articles are refreshed and the
\* run gets its finished_at
SyncFinish ==
    /\ spc = "loop"
    /\ cur > Len(sub_ids)
    /\ SetSession([_refresh_low_quality_summaries(Session, new_article_ids)
                      EXCEPT !.sync_runs[Len(sync_runs)].finished_at = <<now>>])
    /\ spc' = "returned"
    /\ UNCHANGED <<now, gatewayvars, syncconf, cur, last_success_map, last_since, committed>>

\* cli view, line after sync returned: session.commit(); the locals of sync
\* are gone
Commit ==
    /\ spc = "returned"
    /\ committed' = Tables
    /\ spc' = "idle"
    /\ cur' = 1
    /\ last_success_map' = <<>>
    /\ new_article_ids' = <<>>
    /\ summarize_calls' = <<>>
    /\ UNCHANGED <<now, gatewayvars, syncconf, synctables, last_since>>

\* the user interrupts the run between two subscriptions: KeyboardInterrupt
\* is raised in the loop
Interrupt ==
    /\ spc = "loop"
    /\ 1 < cur /\ cur <= Len(sub_ids)
    /\ spc' = "interrupted"
    /\ UNCHANGED <<now, gatewayvars, syncconf, synctables, cur, last_success_map,
                   new_article_ids, summarize_calls, last_since, committed>>

\* an exception leaves sync and cli view; session_scope closes the session,
\* which rolls back what was not committed
Close ==
    /\ spc \in {"raised", "interrupted"}
    /\ subscriptions' = committed.subscriptions
    /\ articles' = committed.articles
    /\ article_summaries' = committed.article_summaries
    /\ article_embeddings' = committed.article_embeddings
    /\ sync_runs' = committed.sync_runs
    /\ sync_run_items' = committed.sync_run_items
    /\ health' = committed.health
    /\ fetch_attempts' = committed.fetch_attempts
    /\ preferred_provider' = committed.preferred_provider
    /\ spc' = "idle"
    /\ cur' = 1
    /\ last_success_map' = <<>>
    /\ new_article_ids' = <<>>
    /\ summarize_calls' = <<>>
    /\ UNCHANGED <<now, fail_threshold, max_candidates, retry_backoff_ms, pc, callvars, skip_ret,
                   discovered, fetch_in, fetch_out, responses, alonevars, syncconf, last_since,
                   committed>>

\* the ids of a SyncService run over two subscriptions
TwoSubscriptions == <<1, 2>>

SyncInit ==
    /\ InitDB
    /\ fail_threshold = 1
    /\ max_candidates = 1
    /\ retry_backoff_ms = 800
    /\ discovered = {}
    /\ fetch_in = <<Returns, Returns>>
    /\ responses = <<>>
    /\ ServicesIdle
    /\ use_gateway \in BOOLEAN
    /\ incremental_sync_enabled \in BOOLEAN
    /\ sync_overlap_seconds \in IF incremental_sync_enabled THEN {0, MaxOverlap} ELSE {0}
    /\ sub_ids = TwoSubscriptions
    /\ InitTables

SyncNext ==
    \/ SyncStart
    \/ \E rr \in ResolveResults, fo \in FetchReturns \cup FetchRaises : SyncSubscriptionV1(rr, fo)
    \/ \E fetch_result \in GatewayResults : SyncSubscriptionV2(fetch_result)
    \/ SyncFinish
    \/ Commit
    \/ Interrupt
    \/ Close

\* SyncService.sync run from cli view over two subscriptions, for whatever
\* the resolver, the fetcher and the gateway hand it
SyncSpec == SyncInit /\ [][SyncNext]_vars

\* what the fetcher returns where only the times of the runs are examined
OneFetch == [type |-> "return", articles |-> <<RawArticle("e1", "t1", "u1", 1, "x1", "h1")>>,
             message |-> "", db_error |-> FALSE]

SinceInit ==
    /\ InitDB
    /\ fail_threshold = 1
    /\ max_candidates = 1
    /\ retry_backoff_ms = 800
    /\ discovered = {}
    /\ fetch_in = <<Returns, Returns>>
    /\ responses = <<>>
    /\ ServicesIdle
    /\ use_gateway = FALSE
    /\ incremental_sync_enabled \in BOOLEAN
    /\ sync_overlap_seconds \in 0..MaxOverlap
    /\ sub_ids = TwoSubscriptions
    /\ InitTables

SinceNext ==
    \/ SyncStart
    \/ \E rr \in ResolveResults : SyncSubscriptionV1(rr, OneFetch)
    \/ SyncFinish
    \/ Commit
    \/ Tick

\* sync runs of one target date while time passes, each subscription
\* succeeding or failing
SinceSpec == SinceInit /\ [][SinceNext]_vars

(* ------------------- sync through the gateway, one subscription -------- *)

\* what a provider does for a key in every run: discover returns or raises,
\* probe is ok or raises, fetch returns the feed or times out
Response(discover, probe, fetch) == [discover |-> discover, probe |-> probe, fetch |-> fetch]

ResponseKinds ==
    { Response("ok", "ok", Returns), Response("ok", "ok", Timeout),
      Response("ok", "raise", Returns), Response("raise", "ok", Returns) }

\* line 187 calls fetch_with_failover for the subscription the loop is at
GatewayCall ==
    /\ spc = "loop"
    /\ cur <= Len(sub_ids)
    /\ use_gateway
    /\ \A k \in discovered : responses[k].discover = "ok"
    /\ Start

\* lines 606, 571: a provider's discover raises; discover_candidates and
\* fetch_with_failover have no handler around it
DiscoverRaises ==
    /\ spc = "loop"
    /\ cur <= Len(sub_ids)
    /\ use_gateway
    /\ pc = "idle"
    /\ \E k \in discovered : responses[k].discover = "raise"
    /\ pc' = "raised"
    /\ UNCHANGED <<now, retry_backoff_ms, health, fetch_attempts, preferred_provider, callvars,
                   skip_ret, fixedvars, syncvars>>

\* line 648: provider.probe(candidate) raises; no handler around it
ProbeRaises ==
    /\ pc = "probe"
    /\ responses[candidates[idx]].probe = "raise"
    /\ pc' = "raised"
    /\ io' = Append(io, [op |-> "probe", key |-> candidates[idx], kind |-> "raise"])
    /\ UNCHANGED <<now, retry_backoff_ms, health, fetch_attempts, preferred_provider, candidates,
                   idx, attempts, last_error_kind, last_error_message, call_start, health0,
                   result, skip_ret, fixedvars, syncvars>>

\* the probe of the candidate the loop is at answers as its provider does
ProbeAnswers ==
    /\ pc = "probe"
    /\ responses[candidates[idx]].probe = "ok"
    /\ Probe([ok |-> TRUE, latency_ms |-> 0, error_kind |-> "", error_message |-> ""])

\* and so does its fetch, at both invocations
FetchAnswers ==
    /\ pc = "fetch"
    /\ Fetch(<<responses[candidates[idx]].fetch, responses[candidates[idx]].fetch>>)

ResetCall ==
    /\ pc' = "idle"
    /\ candidates' = <<>>
    /\ idx' = 1
    /\ attempts' = 0
    /\ last_error_kind' = "UNKNOWN"
    /\ last_error_message' = "unknown error"
    /\ call_start' = 0
    /\ health0' = <<>>
    /\ io' = <<>>
    /\ result' = NoResult

\* the SourceFetchResult as _sync_subscription_v2 reads it: the candidate's
\* url and provider, and the RawArticles of its feed
GatewayResult(r) ==
    [ok |-> r.ok, url |-> r.candidate,
     provider |-> IF r.candidate = "" THEN "none" ELSE ProviderOf(r.candidate),
     articles |-> [i \in DOMAIN r.articles |->
                      RawArticle(r.articles[i].external_id, "t1", r.articles[i].source, 1, "x1", "h1")],
     error_kind |-> r.error_kind, error_message |-> r.error_message, db_error |-> FALSE]

\* lines 193-219: _sync_subscription_v2 takes the result the gateway returned
TakeResult ==
    /\ spc = "loop"
    /\ pc = "done"
    /\ LET fetch_result == GatewayResult(result) IN
       /\ LoopTurn(_sync_subscription_v2(Session, Len(sync_runs), sub_ids[cur], fetch_result, now),
                   sub_ids[cur])
       /\ preferred_provider' = IF fetch_result.ok /\ fetch_result.url # ""
                                THEN fetch_result.provider ELSE preferred_provider
    /\ ResetCall
    /\ UNCHANGED <<now, retry_backoff_ms, health, fetch_attempts, skip_ret, fixedvars>>

\* the exception of the gateway passes through _sync_subscription_v2 and
\* sync, which have no handler
Propagate ==
    /\ spc = "loop"
    /\ pc = "raised"
    /\ spc' = "raised"
    /\ ResetCall
    /\ UNCHANGED <<now, retry_backoff_ms, health, fetch_attempts, preferred_provider, skip_ret,
                   fixedvars, syncconf, synctables, cur, last_success_map, new_article_ids,
                   summarize_calls, last_since, committed>>

FailoverInit ==
    /\ InitDB
    /\ fail_threshold \in {Max(n, 1) : n \in 0..MaxFailThreshold}
    /\ max_candidates \in {Max(n, 1) : n \in 0..MaxMaxCandidates}
    /\ retry_backoff_ms = 800
    /\ discovered \in SUBSET Keys
    /\ fetch_in = <<Returns, Returns>>
    /\ responses \in [discovered -> ResponseKinds]
    /\ ServicesIdle
    /\ \A k \in discovered : ProviderOf(k) \notin Providers => responses[k] = Response("ok", "ok", Returns)
    /\ use_gateway = TRUE
    /\ incremental_sync_enabled = TRUE
    /\ sync_overlap_seconds = 0
    /\ sub_ids = <<1>>
    /\ InitTables

FailoverNext ==
    \/ SyncStart
    \/ GatewayCall
    \/ DiscoverRaises
    \/ LoopExhausted
    \/ LoopNoProvider
    \/ LoopCircuitSkip
    \/ LoopProceed
    \/ ProbeAnswers
    \/ ProbeRaises
    \/ FetchAnswers
    \/ TakeResult
    \/ Propagate
    \/ SyncFinish
    \/ Commit
    \/ Close
    \/ Tick

\* sync runs of one subscription through the gateway, its providers
\* answering the same in every run
FailoverSpec == FailoverInit /\ [][FailoverNext]_vars

(* ------------------------ subscription_sources ------------------------- *)

\* the url a user gave a subscription, and the urls the two default
\* templates of config.DEFAULT_SOURCE_TEMPLATES make of its wechat_id
ManualUrl == "https_manual"
TemplateUrls == <<"https_mirror1", "https_mirror2">>

\* json.dumps({"legacy": True}, ensure_ascii=False)
LegacyJson == "{\"legacy\": true}"
\* the metadata of a manual row written before the gateway existed
CompactLegacyJson == "{\"legacy\":true}"
\* json.dumps({"template": template})
TemplateJson == "{\"template\": \"t\"}"

\* '"legacy":true' in metadata
HasLegacyMark(metadata) == metadata = CompactLegacyJson

SourceRow(priority, is_pinned, is_active, metadata_json) ==
    [priority |-> priority, is_pinned |-> is_pinned, is_active |-> is_active,
     metadata_json |-> metadata_json]

\* a SourceCandidate: its key is (provider, url)
SourceCandidate(provider, url, priority, is_pinned, metadata_json) ==
    [key |-> <<provider, url>>, priority |-> priority, is_pinned |-> is_pinned,
     metadata_json |-> metadata_json]

\* _demote_legacy_manual_sources on the rows
_demote_legacy_manual_sources(rows) ==
    [k \in DOMAIN rows |->
        IF k[1] = MANUAL_PROVIDER /\ HasLegacyMark(rows[k].metadata_json)
        THEN [rows[k] EXCEPT !.is_pinned = FALSE, !.is_active = FALSE,
                             !.priority = Max(rows[k].priority, 95)]
        ELSE rows[k]]

\* ManualSourceProvider.discover: the active manual rows, and the
\* subscription's own source_url in manual mode if no row has it
ManualDiscover(rows, sub_source_url, mode) ==
    LET active == {k \in DOMAIN rows : k[1] = MANUAL_PROVIDER /\ rows[k].is_active}
        stored == {SourceCandidate(k[1], k[2], rows[k].priority, rows[k].is_pinned,
                                   rows[k].metadata_json) : k \in active}
    IN  stored \cup
        (IF sub_source_url # "" /\ mode = SOURCE_MODE_MANUAL
            /\ \A k \in active : k[2] # sub_source_url
         THEN {SourceCandidate(MANUAL_PROVIDER, sub_source_url, 0, TRUE, LegacyJson)}
         ELSE {})

\* TemplateMirrorSourceProvider.discover
MirrorDiscover ==
    {SourceCandidate(RSSHUB_MIRROR_PROVIDER, TemplateUrls[i], 20 + (i - 1), FALSE, TemplateJson) :
        i \in DOMAIN TemplateUrls}

\* _upsert_subscription_source: the rows after it
_upsert_subscription_source(rows, c) ==
    IF c.key \notin DOMAIN rows
    THEN [k \in DOMAIN rows \cup {c.key} |->
             IF k = c.key THEN SourceRow(c.priority, c.is_pinned, TRUE, c.metadata_json)
             ELSE rows[k]]
    ELSE [rows EXCEPT ![c.key].priority = c.priority,
                      ![c.key].is_active = TRUE,
                      ![c.key].is_pinned = IF c.is_pinned THEN TRUE ELSE @,
                      ![c.key].metadata_json = IF c.metadata_json # "" THEN c.metadata_json ELSE @]

\* the upserts of the loop of discover_candidates, for the candidates left
RECURSIVE UpsertCandidates(_, _)
UpsertCandidates(rows, cands) ==
    IF cands = {} THEN rows
    ELSE LET c == CHOOSE x \in cands : TRUE IN
         UpsertCandidates(_upsert_subscription_source(rows, c), cands \ {c})

\* what discover_candidates leaves in subscription_sources
DiscoverRows(rows, sub_source_url, mode) ==
    LET demoted == _demote_legacy_manual_sources(rows) IN
    UpsertCandidates(demoted, ManualDiscover(demoted, sub_source_url, mode) \cup MirrorDiscover)

othervars == <<now, fail_threshold, max_candidates, retry_backoff_ms, health, fetch_attempts,
               preferred_provider, pc, callvars, skip_ret, discovered, fetch_in, fetch_out,
               responses, alonevars, use_gateway, incremental_sync_enabled, sync_overlap_seconds, sub_ids,
               articles, article_summaries, article_embeddings, sync_runs, sync_run_items,
               synclocals, last_since, committed>>

\* discover_candidates called for the subscription
DiscoverCandidates ==
    /\ subscription_sources' = DiscoverRows(subscription_sources, subscriptions[1].source_url, source_mode)
    /\ UNCHANGED <<source_mode, subscriptions, othervars>>

\* a sync of the subscription through the gateway: discover_candidates, and
\* the candidate with key k is the one whose fetch succeeds, so that
\* _sync_subscription_v2 takes its url for the subscription (line 208)
SyncTakesSource(k) ==
    /\ LET rows == DiscoverRows(subscription_sources, subscriptions[1].source_url, source_mode) IN
       /\ k \in DOMAIN rows
       /\ rows[k].is_active
       /\ subscription_sources' = rows
       /\ subscriptions' = [subscriptions EXCEPT ![1].source_url = k[2],
                                                 ![1].preferred_provider = k[1],
                                                 ![1].source_status = SOURCE_STATUS_ACTIVE,
                                                 ![1].last_error = ""]
    /\ UNCHANGED <<source_mode, othervars>>

\* and one in which no candidate succeeds
SyncTakesNone ==
    /\ subscription_sources' = DiscoverRows(subscription_sources, subscriptions[1].source_url, source_mode)
    /\ subscriptions' = [subscriptions EXCEPT ![1].source_status = SOURCE_STATUS_MATCH_FAILED,
                                              ![1].last_error = "timed out"]
    /\ UNCHANGED <<source_mode, othervars>>

SourceKeys ==
    {<<MANUAL_PROVIDER, ManualUrl>>}
    \cup {<<p, TemplateUrls[i]>> : p \in {MANUAL_PROVIDER, RSSHUB_MIRROR_PROVIDER}, i \in DOMAIN TemplateUrls}

\* a subscription in auto or manual mode, with or without a source_url of
\* its own, and with or without a pinned manual row of the old kind
SourceInit ==
    /\ InitDB
    /\ fail_threshold = 1
    /\ max_candidates = 1
    /\ retry_backoff_ms = 800
    /\ discovered = {}
    /\ fetch_in = <<Returns, Returns>>
    /\ responses = <<>>
    /\ ServicesIdle
    /\ use_gateway = TRUE
    /\ incremental_sync_enabled = TRUE
    /\ sync_overlap_seconds = 0
    /\ sub_ids = <<1>>
    /\ \E url \in {"", ManualUrl} :
          subscriptions = [i \in {1} |-> [NewSubscription EXCEPT !.source_url = url]]
    /\ articles = <<>>
    /\ article_summaries = <<>>
    /\ article_embeddings = {}
    /\ sync_runs = <<>>
    /\ sync_run_items = <<>>
    /\ spc = "idle"
    /\ cur = 1
    /\ last_success_map = <<>>
    /\ new_article_ids = <<>>
    /\ summarize_calls = <<>>
    /\ last_since = <<>>
    /\ committed = Tables
    /\ source_mode \in {SOURCE_MODE_AUTO, SOURCE_MODE_MANUAL}
    /\ subscription_sources \in
          { <<>>, [k \in {<<MANUAL_PROVIDER, ManualUrl>>} |-> SourceRow(0, TRUE, TRUE, CompactLegacyJson)] }

SourceNext ==
    \/ DiscoverCandidates
    \/ \E k \in SourceKeys : SyncTakesSource(k)
    \/ SyncTakesNone

\* discover_candidates calls and syncs of one subscription, as far as its
\* subscription_sources rows and its source_url go
SourceSpec == SourceInit /\ [][SourceNext]_vars

(* --------------------------- SourceRouter alone ------------------------ *)

\* what a candidate can look like: the provider, the pin, the priority and
\* the discovery time vary, the confidence is one half
RankShapes ==
    [provider : {MANUAL_PROVIDER, RSSHUB_MIRROR_PROVIDER}, is_pinned : BOOLEAN,
     priority : {0, 20}, discovered_at : 0..1, confidence : {50}]

\* the candidate lists of n candidates, the key of a candidate being its place
RankLists(n) ==
    { [i \in 1..n |-> [key |-> i, provider |-> f[i].provider, is_pinned |-> f[i].is_pinned,
                       priority |-> f[i].priority, discovered_at |-> f[i].discovered_at,
                       confidence |-> f[i].confidence]] : f \in [1..n -> RankShapes] }

\* the health rows of some of n candidates, as far as rank reads them: the
\* score, which the health service keeps within 0 and 100
RankHealth(n) ==
    UNION { [S -> {[score |-> 0], [score |-> 100 * ScoreScale]}] : S \in SUBSET (1..n) }

\* SourceRouter.rank is called
RouterRank ==
    /\ ~rank_out.rank_done
    /\ rank_out' = [rank_out EXCEPT !.rank_done = TRUE,
                                    !.ranked = rank(rank_in.preferred, rank_in.cands, rank_in.health)]
    /\ UNCHANGED <<basevars, morevars, rank_in, discvars, viewvars, covvars>>

\* SourceRouter.pick_best is called
RouterPickBest ==
    /\ ~rank_out.pick_done
    /\ rank_out' = [rank_out EXCEPT !.pick_done = TRUE,
                                    !.picked = pick_best(rank_in.preferred, rank_in.cands,
                                                         rank_in.health)]
    /\ UNCHANGED <<basevars, morevars, rank_in, discvars, viewvars, covvars>>

\* the gateway and the sync service at rest, with one new subscription
Quiet ==
    /\ InitDB
    /\ fail_threshold = 1
    /\ max_candidates = 1
    /\ retry_backoff_ms = 800
    /\ discovered = {}
    /\ fetch_in = <<Returns, Returns>>
    /\ responses = <<>>
    /\ use_gateway = TRUE
    /\ incremental_sync_enabled = TRUE
    /\ sync_overlap_seconds = 0
    /\ sub_ids = <<1>>
    /\ subscriptions = [i \in {1} |-> NewSubscription]
    /\ articles = <<>>
    /\ article_summaries = <<>>
    /\ article_embeddings = {}
    /\ sync_runs = <<>>
    /\ sync_run_items = <<>>
    /\ spc = "idle"
    /\ cur = 1
    /\ last_success_map = <<>>
    /\ new_article_ids = <<>>
    /\ summarize_calls = <<>>
    /\ last_since = <<>>
    /\ committed = Tables
    /\ source_mode = SOURCE_MODE_AUTO
    /\ subscription_sources = <<>>

RankInit ==
    /\ Quiet
    /\ \E n \in 0..MaxRankLen :
          rank_in \in [preferred : {"", MANUAL_PROVIDER, RSSHUB_MIRROR_PROVIDER},
                       cands : RankLists(n), health : RankHealth(n)]
    /\ rank_out = NoRank
    /\ DiscIdle
    /\ ViewIdle
    /\ CovIdle
    /\ MoreIdle

RankNext ==
    \/ RouterRank
    \/ RouterPickBest

\* rank and pick_best applied to every short candidate list
RankSpec == RankInit /\ [][RankNext]_vars

(* --------------------------- DiscoveryOrchestrator --------------------- *)

\* the discovery providers in their configured order
DiscoveryProviders == <<"weread", "search_index">>

\* the article links found, each with the __biz parameter of its query
RefUrls == {"mp_biz1", "mp_biz2"}

\* the __biz values in sorted order
BizValues == <<"biz1", "biz2">>

\* parse_qs(urlparse(url).query)["__biz"] of an article link
BizOf(url) == IF url = "mp_biz1" THEN "biz1" ELSE "biz2"

\* confidences of the refs a provider returns, in hundredths
RefConfidences == {55, 80}

\* the cap _history_backtrack_refs puts on a confidence, in hundredths
HistoryCap == 55

\* a DiscoveredArticleRef without title and publish-time hints
DiscoveredArticleRef(url, channel, confidence) ==
    [url |-> url, channel |-> channel, confidence |-> confidence]

\* the sequences over S of length n
SeqsOf(S, n) == [1..n -> S]

\* the lists one search invocation of provider p may return: up to MaxRefs
\* refs of channel p, a ref without a url and repeated urls included
ProviderRefs(p) ==
    UNION { SeqsOf({ DiscoveredArticleRef(u, p, c) : u \in RefUrls \cup {""}, c \in RefConfidences }, n)
            : n \in 0..MaxRefs }

\* what SearchIndexProvider.search_by_query may return for one query: up to
\* MaxRefs refs with a url each and no url twice
QueryRefs ==
    { r \in ProviderRefs("search_index") :
        /\ \A i \in 1..Len(r) : r[i].url # ""
        /\ \A i, j \in 1..Len(r) : i # j => r[i].url # r[j].url }

\* an exception of a provider, as the set of the marks its text carries
DiscoveryErrors ==
    { {"auth_expired"}, {"timed out"}, {"403"}, {"404"}, {"403", "timeout"}, {} }

\* _classify_discovery_error
_classify_discovery_error(text) ==
    IF "auth_expired" \in text \/ "login_state" \in text THEN "AUTH_EXPIRED"
    ELSE IF "timed out" \in text \/ "timeout" \in text THEN "TIMEOUT"
    ELSE IF "403" \in text THEN "FETCH_BLOCKED"
    ELSE IF "404" \in text THEN "NOT_FOUND"
    ELSE "SEARCH_EMPTY"

\* [ref for ref in refs if ref.url]
FilterUrl(refs) == SelectSeq(refs, LAMBDA ref : ref.url # "")

\* _history_backtrack_refs: the stored urls give the __biz values; found[b] is
\* what the query for b returned (<<>> when it raised); the refs of all
\* queries, in the order of the sorted values, become history refs
RECURSIVE HistoryRefsFrom(_, _, _)
HistoryRefsFrom(bizs, stored, found) ==
    IF bizs = <<>> THEN <<>>
    ELSE (IF Head(bizs) \in stored THEN found[Head(bizs)] ELSE <<>>)
         \o HistoryRefsFrom(Tail(bizs), stored, found)

_history_backtrack_refs(rows, found) ==
    LET biz_values == { BizOf(u) : u \in DOMAIN rows }
        refs == HistoryRefsFrom(BizValues, biz_values, found)
    IN  [i \in 1..Len(refs) |->
            DiscoveredArticleRef(refs[i].url, "history_backtrack", Min(refs[i].confidence, HistoryCap))]

\* an ArticleRef row
ArticleRefRow(ref) == [url |-> ref.url, channel |-> ref.channel, confidence |-> ref.confidence]

\* _upsert_ref that lets the confidence of the ref replace the stored one
_upsert_ref_overwrite(st, ref) ==
    IF ref.url \notin DOMAIN st.rows
    THEN [st EXCEPT !.added = Append(@, ArticleRefRow(ref))]
    ELSE [st EXCEPT !.rows[ref.url] = ArticleRefRow(ref)]

\* _upsert_ref: the select sees the rows of the database only (the session
\* does not autoflush), so a url that is only pending is added again
_upsert_ref(st, ref) ==
    IF ref.url \notin DOMAIN st.rows
    THEN [st EXCEPT !.added = Append(@, ArticleRefRow(ref))]
    ELSE [st EXCEPT !.rows[ref.url] =
              [url |-> ref.url, channel |-> ref.channel,
               confidence |-> Max(st.rows[ref.url].confidence, ref.confidence)]]

\* the loop of _upsert_ref over all_refs
RECURSIVE UpsertRefs(_, _)
UpsertRefs(st, refs) ==
    IF refs = <<>> THEN st ELSE UpsertRefs(_upsert_ref(st, Head(refs)), Tail(refs))

\* a dedup that keeps the first ref of every url
Dedup_first(refs) ==
    LET firsts == SelectSeq([i \in 1..Len(refs) |-> i],
                            LAMBDA i : \A j \in 1..(i - 1) : refs[j].url # refs[i].url)
    IN  [k \in 1..Len(firsts) |-> refs[firsts[k]]]

\* the dedup dict of discover as the list of its values: the urls in the
\* order they first appear, each with its first ref of the highest confidence
Dedup(refs) ==
    LET firsts == SelectSeq([i \in 1..Len(refs) |-> i],
                            LAMBDA i : \A j \in 1..(i - 1) : refs[j].url # refs[i].url)
        best(u) == CHOOSE i \in 1..Len(refs) :
                      /\ refs[i].url = u
                      /\ \A j \in 1..Len(refs) : refs[j].url = u =>
                            \/ refs[j].confidence < refs[i].confidence
                            \/ (refs[j].confidence = refs[i].confidence /\ i <= j)
    IN  [k \in 1..Len(firsts) |-> refs[best(refs[firsts[k]].url)]]

\* refs.sort(key=confidence, reverse=True): stable, the highest first
RECURSIVE SortByConfidence(_)
SortByConfidence(refs) ==
    IF refs = <<>> THEN <<>>
    ELSE LET top == CHOOSE i \in 1..Len(refs) :
                        /\ \A j \in 1..Len(refs) : refs[j].confidence <= refs[i].confidence
                        /\ \A j \in 1..(i - 1) : refs[j].confidence < refs[i].confidence
         IN  <<refs[top]>> \o SortByConfidence(SubSeq(refs, 1, top - 1) \o SubSeq(refs, top + 1, Len(refs)))

\* a provider_notes entry: who was consulted, and the error kind (with the
\* text of the exception) or the number of refs with a url
Note(name, outcome, count, error_kind, text) ==
    [name |-> name, outcome |-> outcome, count |-> count, error_kind |-> error_kind,
     text |-> text]

\* what a search invocation does: it raises exc or returns refs
Raised(exc) == [raised |-> TRUE, exc |-> exc, refs |-> <<>>]
Returned(refs) == [raised |-> FALSE, exc |-> {}, refs |-> refs]

\* the locals of discover
Locals == [dpc |-> dpc, d_idx |-> d_idx, all_refs |-> all_refs,
           d_last_error_kind |-> d_last_error_kind, provider_notes |-> provider_notes]

\* a turn of the loop that goes on to the next provider after refs were found
ProviderTurn_nobreak(loc, provider, answer) ==
    LET filtered == FilterUrl(answer.refs)
    IN  IF answer.raised
        THEN [loc EXCEPT !.d_last_error_kind = _classify_discovery_error(answer.exc),
                         !.provider_notes = Append(@, Note(provider, "error", 0,
                                                           _classify_discovery_error(answer.exc),
                                                           answer.exc)),
                         !.d_idx = @ + 1]
        ELSE [loc EXCEPT !.provider_notes = Append(@, Note(provider, "refs", Len(filtered), "", {})),
                         !.all_refs = IF filtered # <<>> THEN filtered ELSE @,
                         !.d_idx = @ + 1]

\* a turn of the loop that forgets the error of a raising provider
ProviderTurn_keepkind(loc, provider, answer) ==
    LET filtered == FilterUrl(answer.refs)
    IN  IF answer.raised
        THEN [loc EXCEPT !.provider_notes = Append(@, Note(provider, "error", 0,
                                                           _classify_discovery_error(answer.exc),
                                                           answer.exc)),
                         !.d_idx = @ + 1]
        ELSE IF filtered # <<>>
        THEN [loc EXCEPT !.provider_notes = Append(@, Note(provider, "refs", Len(filtered), "", {})),
                         !.all_refs = filtered,
                         !.dpc = "after"]
        ELSE [loc EXCEPT !.provider_notes = Append(@, Note(provider, "refs", 0, "", {})),
                         !.d_idx = @ + 1]

\* one turn of the loop of discover over the providers: an exception is
\* classified and noted and the loop continues; refs are filtered and noted,
\* and the loop breaks when some are left
ProviderTurn(loc, provider, answer) ==
    LET filtered == FilterUrl(answer.refs)
    IN  IF answer.raised
        THEN [loc EXCEPT !.d_last_error_kind = _classify_discovery_error(answer.exc),
                         !.provider_notes = Append(@, Note(provider, "error", 0,
                                                           _classify_discovery_error(answer.exc),
                                                           answer.exc)),
                         !.d_idx = @ + 1]
        ELSE IF filtered # <<>>
        THEN [loc EXCEPT !.provider_notes = Append(@, Note(provider, "refs", Len(filtered), "", {})),
                         !.all_refs = filtered,
                         !.dpc = "after"]
        ELSE [loc EXCEPT !.provider_notes = Append(@, Note(provider, "refs", 0, "", {})),
                         !.d_idx = @ + 1]

\* the locals of discover become loc
SetLocals(loc) ==
    /\ dpc' = loc.dpc
    /\ d_idx' = loc.d_idx
    /\ all_refs' = loc.all_refs
    /\ d_last_error_kind' = loc.d_last_error_kind
    /\ provider_notes' = loc.provider_notes

\* discover is called, in a session that holds no changes: the caller
\* commits after every call
DiscoverStart ==
    /\ dpc = "idle"
    /\ ~integrity_error
    /\ new_refs = <<>>
    /\ article_refs = refs_committed
    /\ dpc' = "loop"
    /\ d_idx' = 1
    /\ all_refs' = <<>>
    /\ d_last_error_kind' = "SEARCH_EMPTY"
    /\ provider_notes' = <<>>
    /\ UNCHANGED <<basevars, morevars, rankvars, viewvars, covvars, reftables, disc_result>>

\* the provider the loop is at raises
SearchRaises ==
    /\ dpc = "loop"
    /\ d_idx <= Len(DiscoveryProviders)
    /\ \E exc \in DiscoveryErrors :
          SetLocals(ProviderTurn(Locals, DiscoveryProviders[d_idx], Raised(exc)))
    /\ UNCHANGED <<basevars, morevars, rankvars, viewvars, covvars, reftables, disc_result>>

\* the provider the loop is at returns a list of refs
SearchReturns ==
    /\ dpc = "loop"
    /\ d_idx <= Len(DiscoveryProviders)
    /\ \E refs \in ProviderRefs(DiscoveryProviders[d_idx]) :
          SetLocals(ProviderTurn(Locals, DiscoveryProviders[d_idx], Returned(refs)))
    /\ UNCHANGED <<basevars, morevars, rankvars, viewvars, covvars, reftables, disc_result>>

\* the loop over the providers ends with none left
SearchExhausted ==
    /\ dpc = "loop"
    /\ d_idx > Len(DiscoveryProviders)
    /\ dpc' = "after"
    /\ UNCHANGED <<basevars, morevars, rankvars, viewvars, covvars, reftables, d_idx, all_refs, d_last_error_kind,
                   provider_notes, disc_result>>

\* if not all_refs: the history backtrack
HistoryBacktrack ==
    /\ dpc = "after"
    /\ all_refs = <<>>
    /\ \E found \in [{ BizOf(u) : u \in DOMAIN article_refs } -> QueryRefs] :
          LET history_refs == _history_backtrack_refs(article_refs, found)
          IN  /\ all_refs' = history_refs
              /\ provider_notes' = Append(provider_notes,
                                          Note("history_backtrack", "refs", Len(history_refs),
                                               "", {}))
    /\ dpc' = "store"
    /\ UNCHANGED <<basevars, morevars, rankvars, viewvars, covvars, reftables, d_idx, d_last_error_kind, disc_result>>

\* the rest of discover: the FAILED result when there are no refs, else the
\* upsert of every ref and the SUCCESS result
DiscoverReturns ==
    /\ \/ dpc = "store"
       \/ dpc = "after" /\ all_refs # <<>>
    /\ IF all_refs = <<>>
       THEN /\ disc_result' = [returned |-> TRUE, ok |-> FALSE, refs |-> <<>>, channel_used |-> "",
                               error_kind |-> d_last_error_kind, status |-> "FAILED"]
            /\ UNCHANGED <<article_refs, new_refs>>
       ELSE LET st == UpsertRefs([rows |-> article_refs, added |-> new_refs], all_refs)
                refs == SortByConfidence(Dedup(all_refs))
            IN  /\ article_refs' = st.rows
                /\ new_refs' = st.added
                /\ disc_result' = [returned |-> TRUE, ok |-> TRUE, refs |-> refs,
                                   channel_used |-> refs[1].channel, error_kind |-> "",
                                   status |-> "SUCCESS"]
    /\ dpc' = "returned"
    /\ UNCHANGED <<basevars, morevars, rankvars, viewvars, covvars, refs_committed, integrity_error, d_idx, all_refs,
                   d_last_error_kind, provider_notes>>

\* the caller has read the DiscoveryResult; the locals of the call are gone
TakeDiscovery ==
    /\ dpc = "returned"
    /\ dpc' = "idle"
    /\ disc_result' = NoDiscovery
    /\ d_idx' = 1
    /\ all_refs' = <<>>
    /\ d_last_error_kind' = "SEARCH_EMPTY"
    /\ provider_notes' = <<>>
    /\ UNCHANGED <<basevars, morevars, rankvars, viewvars, covvars, reftables>>

\* session.commit() of the caller: the flush inserts the pending rows; two
\* rows of one url break the unique constraint, the commit raises and the
\* session is rolled back when it is closed
SessionCommit ==
    /\ dpc = "idle"
    /\ ~integrity_error
    /\ new_refs # <<>> \/ article_refs # refs_committed
    /\ IF \E i, j \in 1..Len(new_refs) : i # j /\ new_refs[i].url = new_refs[j].url
       THEN /\ integrity_error' = TRUE
            /\ article_refs' = refs_committed
            /\ UNCHANGED refs_committed
       ELSE /\ article_refs' = [u \in DOMAIN article_refs \cup { new_refs[i].url : i \in 1..Len(new_refs) } |->
                                   IF u \in DOMAIN article_refs THEN article_refs[u]
                                   ELSE new_refs[CHOOSE i \in 1..Len(new_refs) : new_refs[i].url = u]]
            /\ refs_committed' = article_refs'
            /\ UNCHANGED integrity_error
    /\ new_refs' = <<>>
    /\ UNCHANGED <<basevars, morevars, rankvars, viewvars, covvars, disclocals>>

DiscoverInit ==
    /\ Quiet
    /\ RankIdle
    /\ DiscIdle
    /\ ViewIdle
    /\ CovIdle
    /\ MoreIdle

DiscoverNext ==
    \/ DiscoverStart
    \/ SearchRaises
    \/ SearchReturns
    \/ SearchExhausted
    \/ HistoryBacktrack
    \/ DiscoverReturns
    \/ TakeDiscovery
    \/ SessionCommit

\* discover calls of one session on one subscription, and its commits
DiscoverSpec == DiscoverInit /\ [][DiscoverNext]_vars

(* ------------------------------- view ---------------------------------- *)

\* _day_bounds: the day of the view is [day_start, day_end)
day_end == day_start + 2

\* the names subscriptions are given; the name of a subscription is not unique
ViewNames == {"A", "B"}

\* the subscriptions of the database seen by view
ViewSubs == {1, 2}

\* the articles tables of up to MaxViewArticles rows, the id of a row being
\* its place; published_at lies before, in or at the end of the day
ViewArticles ==
    UNION { [1..n -> [subscription_id : ViewSubs, published_at : (day_start - 1)..day_end]]
            : n \in 0..MaxViewArticles }

\* the ids of the articles of the day
InDay(table) ==
    { id \in DOMAIN table : table[id].published_at >= day_start /\ table[id].published_at < day_end }

\* ORDER BY published_at DESC, id ASC: id a comes before id b
DayOrder(table, a, b) ==
    \/ table[a].published_at > table[b].published_at
    \/ table[a].published_at = table[b].published_at /\ a < b

\* the rows of the query of _build_day_id_maps, in its order
RECURSIVE OrderedIds(_, _)
OrderedIds(table, ids) ==
    IF ids = {} THEN <<>>
    ELSE LET first == CHOOSE a \in ids : \A b \in ids \ {a} : DayOrder(table, a, b)
         IN  <<first>> \o OrderedIds(table, ids \ {first})

\* a numbering of the day's articles in the order of their ids
_build_day_id_maps_byid(table) ==
    LET ids == InDay(table)
        rows == [k \in 1..Cardinality(ids) |->
                    CHOOSE a \in ids : Cardinality({ b \in ids : b < a }) = k - 1]
    IN  [by_article_pk |-> [a \in ids |-> CHOOSE k \in 1..Len(rows) : rows[k] = a],
         by_day_id |-> rows]

\* _build_day_id_maps: by_day_id is the list of the rows, by_article_pk the
\* place of each article in it
_build_day_id_maps(table) ==
    LET rows == OrderedIds(table, InDay(table))
    IN  [by_article_pk |-> [a \in InDay(table) |-> CHOOSE k \in 1..Len(rows) : rows[k] = a],
         by_day_id |-> rows]

\* _resolve_article_pk_by_day_id: <<>> for None
_resolve_article_pk_by_day_id(table, day_id) ==
    IF day_id <= 0 THEN <<>>
    ELSE LET by_day_id == _build_day_id_maps(table).by_day_id
         IN  IF day_id \in DOMAIN by_day_id THEN <<by_day_id[day_id]>> ELSE <<>>

\* _live_success_source_names: no DiscoveryRun row is written by the sync, so
\* the names are those of the subscriptions with a SUCCESS item in the run
_live_success_source_names(db) ==
    { db.names[sub] : sub \in { x \in DOMAIN db.status : db.status[x] = SYNC_ITEM_STATUS_SUCCESS } }

\* an ArticleViewItem, as far as the day-id, the article and its source go
ArticleViewItem(db, id, day_ids) ==
    [day_id |-> IF id \in DOMAIN day_ids THEN day_ids[id] ELSE 0, article_pk |-> id,
     source_name |-> db.names[db.articles[id].subscription_id],
     published_at |-> db.articles[id].published_at]

\* _query_article_items: the items of the articles of the day, of the
\* allowed sources when allowed is not None (<<>>); the order of the items,
\* which the mode decides, is left out
_query_article_items(db, allowed) ==
    LET day_ids == _build_day_id_maps(db.articles).by_article_pk
        items == { ArticleViewItem(db, id, day_ids) : id \in InDay(db.articles) }
    IN  IF allowed = <<>> THEN items
        ELSE { item \in items : item.source_name \in allowed[1] }

\* view, after its sync and commit: the items it shows
View ==
    /\ ~view_out.done
    /\ view_out' = [done |-> TRUE,
                    items |-> _query_article_items(
                                  view_in,
                                  IF view_in.strict_live
                                  THEN <<_live_success_source_names(view_in)>> ELSE <<>>)]
    /\ UNCHANGED <<basevars, morevars, rankvars, discvars, covvars, view_in, resolve_out>>

\* a day-id of the same date is resolved, as the read commands do
ResolveDayId ==
    /\ ~resolve_out.done
    /\ \E day_id \in (0 - 1)..(MaxViewArticles + 1) :
          resolve_out' = [done |-> TRUE, day_id |-> day_id,
                          article_pk |-> _resolve_article_pk_by_day_id(view_in.articles, day_id)]
    /\ UNCHANGED <<basevars, morevars, rankvars, discvars, covvars, view_in, view_out>>

ViewInit ==
    /\ Quiet
    /\ RankIdle
    /\ DiscIdle
    /\ CovIdle
    /\ MoreIdle
    /\ view_in \in [names : [ViewSubs -> ViewNames], articles : ViewArticles,
                    status : [ViewSubs -> {SYNC_ITEM_STATUS_SUCCESS, SYNC_ITEM_STATUS_FAILED}],
                    strict_live : BOOLEAN]
    /\ view_out = NoView
    /\ resolve_out = NoResolve

ViewNext ==
    \/ View
    \/ ResolveDayId

\* view and the resolution of day-ids on every small database
ViewSpec == ViewInit /\ [][ViewNext]_vars

(* --------------------------- CoverageService --------------------------- *)

DISCOVERY_STATUS_SUCCESS == "SUCCESS"
DISCOVERY_STATUS_DELAYED == "DELAYED"
DISCOVERY_STATUS_FAILED == "FAILED"

\* the ids of the sync runs of the database
CovRuns == {1, 2}

\* the databases compute reads: the subscriptions 1..n, the started_at of
\* the sync runs (before the day or in it), and at most one discovery_runs row
\* with its status for a run and a subscription
CovDatabases ==
    UNION { UNION {
        [subscriptions : {1..n}, started_at : [R -> (day_start - 1)..(day_start + 1)],
         discovery_runs : UNION { [D -> {DISCOVERY_STATUS_SUCCESS, DISCOVERY_STATUS_DELAYED,
                                         DISCOVERY_STATUS_FAILED}] : D \in SUBSET (R \X (1..n)) }]
        : R \in {{}, {1}, CovRuns} } : n \in 0..MaxCovSubs }

\* the runs one of which `ORDER BY started_at DESC LIMIT 1` returns: those no
\* other run of R started after
Latest(db, R) == { r \in R : \A q \in R : db.started_at[q] <= db.started_at[r] }

\* the runs compute may select: the latest started in the day, and the latest
\* of all when none started in the day
SelectableRuns(db) ==
    LET in_day == { r \in DOMAIN db.started_at :
                      db.started_at[r] >= day_start /\ db.started_at[r] < day_end }
    IN  IF in_day # {} THEN Latest(db, in_day) ELSE Latest(db, DOMAIN db.started_at)

\* the loop of compute over the subscriptions from sub on: the counters
RECURSIVE CountFrom(_, _, _, _)
CountFrom(sub, last, status_by_sub, acc) ==
    IF sub > last THEN acc
    ELSE LET status == IF sub \in DOMAIN status_by_sub THEN status_by_sub[sub]
                       ELSE DISCOVERY_STATUS_FAILED
         IN  CountFrom(sub + 1, last, status_by_sub,
                       [success_subs |-> acc.success_subs
                                         + (IF status = DISCOVERY_STATUS_SUCCESS THEN 1 ELSE 0),
                        delayed_subs |-> acc.delayed_subs
                                         + (IF status = DISCOVERY_STATUS_SUCCESS THEN 0
                                            ELSE IF status = DISCOVERY_STATUS_DELAYED THEN 1 ELSE 0),
                        fail_subs |-> acc.fail_subs
                                      + (IF status \in {DISCOVERY_STATUS_SUCCESS, DISCOVERY_STATUS_DELAYED}
                                         THEN 0 ELSE 1),
                        status_of |-> [x \in DOMAIN acc.status_of \cup {sub} |->
                                          IF x = sub THEN status ELSE acc.status_of[x]]])

\* the report of a compute that counts only the subscriptions with a row
compute_rowsonly(db, run) ==
    LET with_row == IF run = <<>> THEN {}
                    ELSE { sub \in db.subscriptions : <<run[1], sub>> \in DOMAIN db.discovery_runs }
        status_of == [sub \in with_row |-> db.discovery_runs[<<run[1], sub>>]]
        success_subs == Cardinality({ sub \in with_row : status_of[sub] = DISCOVERY_STATUS_SUCCESS })
        delayed_subs == Cardinality({ sub \in with_row : status_of[sub] = DISCOVERY_STATUS_DELAYED })
        total == Cardinality(db.subscriptions)
    IN  [total_subs |-> total, success_subs |-> success_subs, delayed_subs |-> delayed_subs,
         fail_subs |-> Cardinality(with_row) - success_subs - delayed_subs,
         coverage_ratio |-> IF total # 0 THEN ((success_subs + delayed_subs) * ScoreScale) \div total
                            ELSE ScoreScale,
         status_of |-> status_of]

\* CoverageService.compute with the run it selected (<<>> for none): the
\* CoverageReport, which is also what the coverage_daily row of the date gets;
\* coverage_ratio is held times ScoreScale
compute(db, run) ==
    LET total == Cardinality(db.subscriptions)
        status_by_sub == IF run = <<>> THEN <<>>
                         ELSE [sub \in { x \in 1..MaxCovSubs : <<run[1], x>> \in DOMAIN db.discovery_runs } |->
                                  db.discovery_runs[<<run[1], sub>>]]
        counted == CountFrom(1, total, status_by_sub,
                             [success_subs |-> 0, delayed_subs |-> 0, fail_subs |-> 0,
                              status_of |-> <<>>])
    IN  [total_subs |-> total, success_subs |-> counted.success_subs,
         delayed_subs |-> counted.delayed_subs, fail_subs |-> counted.fail_subs,
         coverage_ratio |-> IF total # 0
                            THEN ((counted.success_subs + counted.delayed_subs) * ScoreScale) \div total
                            ELSE ScoreScale,
         status_of |-> counted.status_of]

\* compute is called
CoverageCompute ==
    /\ ~cov_out.done
    /\ \E run \in IF DOMAIN cov_in.started_at = {} THEN {<<>>}
                  ELSE { <<r>> : r \in SelectableRuns(cov_in) } :
          LET report == compute(cov_in, run)
          IN  cov_out' = [done |-> TRUE, run |-> run, report |-> report, coverage_daily |-> <<report>>]
    /\ UNCHANGED <<basevars, morevars, rankvars, discvars, viewvars, cov_in>>

CoverageInit ==
    /\ Quiet
    /\ RankIdle
    /\ DiscIdle
    /\ ViewIdle
    /\ MoreIdle
    /\ cov_in \in CovDatabases
    /\ cov_out = NoCoverage

CoverageNext == CoverageCompute

\* compute on every small database
CoverageSpec == CoverageInit /\ [][CoverageNext]_vars

(* ---------------- Recommender and ReadStateService, alone --------------- *)

\* Times are counted in units of 48 hours, the time in which freshness falls
\* by the factor e (score: exp(-age_hours / 48)).

\* timedelta(days=30) of build_user_profile, in units of 48 hours
ProfileWindow == 15

\* math.exp(-k) is a positive double for k <= 745 and 0.0 above (the smallest
\* positive double is 2^-1074, about exp(-744.44), and exp(-745) rounds up to it)
ExpUnderflow == 745

\* the moment the recommender is used at
RecNow == ExpUnderflow + 2

\* read_at = None
NoTime == 0 - 1

\* no read_states row of an article
NoReadState == [exists |-> FALSE, is_read |-> FALSE, read_at |-> NoTime]

\* a read_states row
ReadStateRow(is_read, read_at) == [exists |-> TRUE, is_read |-> is_read, read_at |-> read_at]

\* the embeddings: two of dimension two (an embedding model) and one of
\* another dimension (ensure_article_embedding stores what embed_text gave,
\* which is the local hash of vector_size entries when the client raised)
Embeddings == {<<1, 0>>, <<0, 1>>, <<1>>}

\* an article with its article_embeddings row and its read_states row
RecArticle(published_at, vector, read_state) ==
    [published_at |-> published_at, vector |-> vector, read_state |-> read_state]

\* ReadStateService.mark at the moment t
mark(db, article_id, is_read, t) ==
    [db EXCEPT !.articles[article_id].read_state =
        ReadStateRow(is_read, IF is_read THEN t ELSE NoTime)]

\* the article ids whose vector the statement of build_user_profile selects, ascending
RECURSIVE ProfileRows(_, _, _)
ProfileRows(arts, lower_bound, i) ==
    IF i > Len(arts) THEN <<>>
    ELSE (IF /\ arts[i].read_state.exists
             /\ arts[i].read_state.is_read
             /\ arts[i].published_at >= lower_bound
          THEN <<i>> ELSE <<>>) \o ProfileRows(arts, lower_bound, i + 1)

\* the sum of two vectors of one dimension
VecAdd(u, v) == [i \in 1..Len(u) |-> u[i] + v[i]]

\* avg after the loop of build_user_profile over the vectors from position i on
RECURSIVE SumVectors(_, _, _, _)
SumVectors(vectors, dim, avg, i) ==
    IF i > Len(vectors) THEN avg
    ELSE SumVectors(vectors, dim,
                    IF Len(vectors[i]) # dim THEN avg ELSE VecAdd(avg, vectors[i]), i + 1)

\* Recommender.build_user_profile with now = db.now.  The vector returned is
\* _normalize_vector(avg / sample_size); the model keeps the sum, which has the
\* same direction, and sample_size, the divisor.
build_user_profile(db) ==
    LET rows == ProfileRows(db.articles, db.now - ProfileWindow, 1)
        vectors == [k \in 1..Len(rows) |-> db.articles[rows[k]].vector]
        dim == Len(vectors[1])
    IN  IF vectors = <<>> THEN [built |-> TRUE, vector |-> <<>>, sample_size |-> 0]
        ELSE [built |-> TRUE,
              vector |-> SumVectors(vectors, dim, [i \in 1..dim |-> 0], 1),
              sample_size |-> Len(vectors)]

\* a double that is 0.0, or exp(e) for an integer e
FloatZero == [zero |-> TRUE, e |-> 0]
FloatExp(e) == [zero |-> FALSE, e |-> e]

\* f < g for two such doubles
FloatLess(f, g) ==
    \/ f.zero /\ ~g.zero
    \/ ~f.zero /\ ~g.zero /\ f.e < g.e

\* math.exp(-age) in double arithmetic, for an integer age >= 0
exp_neg(age) == IF age > ExpUnderflow THEN FloatZero ELSE FloatExp(0 - age)

RECURSIVE Dot(_, _, _)
Dot(u, v, i) == IF i > Len(u) THEN 0 ELSE u[i] * v[i] + Dot(u, v, i + 1)

\* max(_cosine_similarity(v1, v2), 0.0), as the square num / den of its value
\* (0 / 1 where the function returns 0.0)
topic_of(v1, v2) ==
    LET numerator == Dot(v1, v2, 1)
        d1 == Dot(v1, v1, 1)
        d2 == Dot(v2, v2, 1)
    IN  IF v1 = <<>> \/ v2 = <<>> \/ Len(v1) # Len(v2) THEN [num |-> 0, den |-> 1]
        ELSE IF d1 = 0 \/ d2 = 0 THEN [num |-> 0, den |-> 1]
        ELSE IF numerator <= 0 THEN [num |-> 0, den |-> 1]
        ELSE [num |-> numerator * numerator, den |-> d1 * d2]

NoTopic == [num |-> 0, den |-> 1]

\* a mutant of score: the weighted sum also for an empty profile
score_blend(article_vector, profile, published_at, reference) ==
    LET topic_score == IF profile.sample_size > 0 /\ profile.vector # <<>>
                       THEN topic_of(article_vector, profile.vector) ELSE NoTopic
        freshness_score == exp_neg(Max(reference - published_at, 0))
    IN  [score |-> [blend |-> TRUE, topic |-> topic_score, fresh |-> freshness_score],
         topic_score |-> topic_score, freshness_score |-> freshness_score,
         profile_size |-> profile.sample_size]

\* Recommender.score with now = reference.  final is freshness_score alone, or
\* 0.7 * topic_score + 0.3 * freshness_score, which the model keeps as the pair.
score(article_vector, profile, published_at, reference) ==
    LET topic_score == IF profile.sample_size > 0 /\ profile.vector # <<>>
                       THEN topic_of(article_vector, profile.vector) ELSE NoTopic
        freshness_score == exp_neg(Max(reference - published_at, 0))
    IN  [score |-> [blend |-> profile.sample_size # 0,
                    topic |-> IF profile.sample_size = 0 THEN NoTopic ELSE topic_score,
                    fresh |-> freshness_score],
         topic_score |-> topic_score, freshness_score |-> freshness_score,
         profile_size |-> profile.sample_size]

\* mark-read and mark-unread of the cli
Mark ==
    /\ \E article_id \in DOMAIN rec_db.articles, is_read \in BOOLEAN :
          rec_db' = mark(rec_db, article_id, is_read, rec_db.now)
    /\ UNCHANGED <<besidesrec, rec_profile, rec_score>>

BuildUserProfile ==
    /\ rec_profile' = build_user_profile(rec_db)
    /\ UNCHANGED <<besidesrec, rec_db, rec_score>>

\* score for every article with the profile built, as recompute_scores_for_date
\* does for the articles of its date
ScoreArticles ==
    /\ rec_profile.built
    /\ rec_score' = [scored |-> TRUE,
                     rows |-> [i \in DOMAIN rec_db.articles |->
                                 score(rec_db.articles[i].vector, rec_profile,
                                       rec_db.articles[i].published_at, rec_db.now)]]
    /\ UNCHANGED <<besidesrec, rec_db, rec_profile>>

\* the ages of the articles of a read history: inside and outside the window
ProfileAges == {0, ProfileWindow + 1}

\* the articles build_user_profile is examined over
ProfileArticles ==
    {RecArticle(RecNow - a, v, r) :
        a \in ProfileAges, v \in Embeddings,
        r \in {NoReadState, ReadStateRow(TRUE, RecNow - (ProfileWindow + 1))}}

\* the ages score is examined over: a publish time in the future, now, a
\* unit ago, and around the underflow of exp
ScoreAges == {0 - 1, 0, 1, ExpUnderflow, ExpUnderflow + 1, ExpUnderflow + 2}

ScoreArticleSet ==
    {RecArticle(RecNow - a, <<1, 0>>, r) :
        a \in ScoreAges, r \in {NoReadState, ReadStateRow(TRUE, RecNow)}}


RecInit ==
    /\ Quiet
    /\ RankIdle /\ DiscIdle /\ ViewIdle /\ CovIdle
    /\ SumIdle /\ FeedIdle /\ WebIdle
    /\ \E n \in 0..MaxRecArticles :
          rec_db \in [now : {RecNow}, articles : [1..n -> ProfileArticles]]
    /\ rec_profile = NoProfile
    /\ rec_score = NoScore

RecNext ==
    \/ Mark
    \/ BuildUserProfile

\* build_user_profile over every small read history
RecSpec == RecInit /\ [][RecNext]_vars

ScoreInit ==
    /\ Quiet
    /\ RankIdle /\ DiscIdle /\ ViewIdle /\ CovIdle
    /\ SumIdle /\ FeedIdle /\ WebIdle
    /\ \E n \in 0..MaxRecArticles :
          rec_db \in [now : {RecNow}, articles : [1..n -> ScoreArticleSet]]
    /\ rec_profile = NoProfile
    /\ rec_score = NoScore

ScoreNext ==
    \/ BuildUserProfile
    \/ ScoreArticles

\* score over every small set of articles
ScoreSpec == ScoreInit /\ [][ScoreNext]_vars

(* ----------------------------- Summarizer, alone ------------------------ *)

\* A text is a sequence of characters.  The characters that occur: "c" for any
\* character that is neither a separator, a quote nor whitespace, the
\* separators "." and "," (the fourth and the tenth of _truncate_summary), the
\* colon ":" (stripped from the right but no separator), a space, a newline,
\* a double quote, and "ELLIPSIS" for the one character U+2026 that
\* _truncate_summary appends.  No text holds a tag, a date, a noise pattern or
\* a label prefix, which the regular expressions would remove as well.

\* limit of _truncate_summary as _normalize_summary calls it
SummaryLimit == 50

\* Summarizer.source_char_limit
source_char_limit == 6000

Whitespace == {" ", "\n"}

Quotes == {"\""}

\* the separators of _truncate_summary that occur, in its order
Separators == <<".", ",">>

\* what rstrip of _truncate_summary removes, of the characters that occur
ClipChars == {",", ":"}

\* text[:n]
Take(text, n) == SubSeq(text, 1, Min(n, Len(text)))

\* text without the characters of cs at its left end, and at its right end
RECURSIVE lstrip_from(_, _, _)
lstrip_from(text, cs, i) ==
    IF i <= Len(text) /\ text[i] \in cs THEN lstrip_from(text, cs, i + 1)
    ELSE SubSeq(text, i, Len(text))

lstrip(text, cs) == lstrip_from(text, cs, 1)

RECURSIVE rstrip_to(_, _, _)
rstrip_to(text, cs, n) ==
    IF n >= 1 /\ text[n] \in cs THEN rstrip_to(text, cs, n - 1)
    ELSE SubSeq(text, 1, n)

rstrip(text, cs) == rstrip_to(text, cs, Len(text))

\* str.strip()
strip(text) == rstrip(lstrip(text, Whitespace), Whitespace)

\* re.sub(r"\s+", " ", text): every run of whitespace becomes one space
RECURSIVE CollapseSpaces(_)
CollapseSpaces(text) ==
    LET hits == {p \in 1..Len(text) : text[p] \in Whitespace}
        first == CHOOSE p \in hits : \A q \in hits : p <= q
    IN  IF hits = {} THEN text
        ELSE SubSeq(text, 1, first - 1) \o <<" ">>
             \o CollapseSpaces(lstrip_from(text, Whitespace, first))

\* Summarizer._clean_text
_clean_text(raw) == strip(CollapseSpaces(strip(CollapseSpaces(raw))))

\* text.rfind(sep, 0, end): the last index below end that holds sep, or -1
rfind(text, sep, end) ==
    LET hits == {p \in 1..Min(end, Len(text)) : text[p] = sep}
    IN  IF hits = {} THEN 0 - 1 ELSE (CHOOSE p \in hits : \A q \in hits : q <= p) - 1

\* the loop of _truncate_summary over the separators from the k-th on: the
\* text it returns, or <<>> where no separator qualifies
RECURSIVE CutAtSeparator(_, _, _)
CutAtSeparator(text, limit, k) ==
    IF k > Len(Separators) THEN <<>>
    ELSE LET found == rfind(text, Separators[k], limit + 1)
         IN  IF found >= (limit * 6) \div 10 THEN strip(Take(text, found + 1))
             ELSE CutAtSeparator(text, limit, k + 1)

\* Summarizer._truncate_summary
_truncate_summary(text, limit) ==
    IF Len(text) <= limit THEN text
    ELSE IF \E k \in 1..Len(Separators) :
               rfind(text, Separators[k], limit + 1) >= (limit * 6) \div 10
         THEN CutAtSeparator(text, limit, 1)
         ELSE rstrip(Take(text, Max(limit - 1, 1)), ClipChars) \o <<"ELLIPSIS">>

\* n ordinary characters
Chars(n) == [i \in 1..n |-> "c"]

\* the two texts used where nothing else is left, of 20 and of 16 characters,
\* each a clause, a comma, a clause and a full stop
LittleInformation == Chars(6) \o <<",">> \o Chars(12) \o <<".">>
FetchFailed == Chars(6) \o <<",">> \o Chars(8) \o <<".">>

\* Summarizer._normalize_summary
_normalize_summary(text, title) ==
    LET unquoted == strip(rstrip(lstrip(_clean_text(text), Quotes), Quotes))
        cleaned == strip(CollapseSpaces(unquoted))
        by_title == IF cleaned # <<>> THEN cleaned ELSE _clean_text(title)
    IN  _truncate_summary(IF by_title # <<>> THEN by_title ELSE FetchFailed, SummaryLimit)

\* Summarizer._fallback_summary
_fallback_summary(article, source_text) ==
    LET basis == IF strip(source_text) # <<>> THEN strip(source_text)
                 ELSE IF strip(article.content_excerpt) # <<>> THEN strip(article.content_excerpt)
                 ELSE IF strip(article.title) # <<>> THEN strip(article.title)
                 ELSE LittleInformation
    IN  _normalize_summary(basis, article.title)

\* Summarizer._build_source_text; full_text is what _fetch_full_article_text gives
_build_source_text(article, client, full_text) ==
    IF client /\ full_text # <<>> THEN Take(full_text, source_char_limit)
    ELSE Take(strip(_clean_text(article.title) \o <<"\n">> \o _clean_text(article.content_excerpt)),
              source_char_limit)

\* the client raised
Raises == <<"raises">>

\* Summarizer.summarize; llm is the content of the completion, or Raises
Summarizer_summarize(input) ==
    LET source_text == _build_source_text(input, input.client, input.full_text)
    IN  IF ~input.client \/ input.llm = Raises
        THEN [done |-> TRUE, summary_text |-> _fallback_summary(input, source_text),
              model |-> "fallback", used_fallback |-> TRUE]
        ELSE [done |-> TRUE, summary_text |-> _normalize_summary(strip(input.llm), input.title),
              model |-> "chat_model", used_fallback |-> FALSE]

Summarize ==
    /\ ~sum_out.done
    /\ sum_out' = Summarizer_summarize(sum_in)
    /\ UNCHANGED <<besidessum, sum_in>>

\* the lengths of a stretch of ordinary characters: none, one, and the lengths
\* around int(limit * 0.6) and around limit
Stretches ==
    {0, 1, (SummaryLimit * 6) \div 10 - 1, (SummaryLimit * 6) \div 10,
     SummaryLimit - 1, SummaryLimit, SummaryLimit + 1}

\* the texts: two stretches of ordinary characters with nothing, or one other
\* character, between them
SummaryTexts ==
    {Chars(a) \o m \o Chars(b) :
        a \in Stretches, b \in Stretches,
        m \in {<<>>, <<".">>, <<",">>, <<":">>, <<" ">>, <<"\"">>}}

\* the inputs of summarize: without a client; with a client that answers; with a
\* client that raises after the page was fetched
SummaryInputs ==
    [client : {FALSE}, llm : {Raises}, full_text : {<<>>}, title : {<<>>, Chars(1)},
     content_excerpt : SummaryTexts]
    \cup [client : {TRUE}, llm : SummaryTexts, full_text : {<<>>}, title : {<<>>, Chars(1)},
          content_excerpt : {<<>>}]
    \cup [client : {TRUE}, llm : {Raises}, full_text : SummaryTexts, title : {<<>>, Chars(1)},
          content_excerpt : {Chars(1)}]

SummaryInit ==
    /\ Quiet
    /\ RankIdle /\ DiscIdle /\ ViewIdle /\ CovIdle
    /\ RecIdle /\ FeedIdle /\ WebIdle
    /\ sum_in \in SummaryInputs
    /\ sum_out = NoSummary

SummaryNext == Summarize

\* summarize on every input
SummarySpec == SummaryInit /\ [][SummaryNext]_vars

(* ------------------- the gateway over endless daily runs ---------------- *)

\* the candidate whose probe and fetch always succeed
Working == "mirror_u"

\* The health table a day and an hour later, seen from the new now = 0: the
\* stored times move back and rest at that distance, since a cooldown is over
\* and last_ok_at counts for nothing in _refresh_metrics once 24 hours passed;
\* a failure count above fail_threshold rests at fail_threshold, since the
\* count is only ever compared with it.
AfterADay(h, threshold) ==
    LET back == HoursPerDay + 1
        moved(t) == IF t = <<>> THEN <<>> ELSE <<Max(t[1] - back, 0 - back)>>
    IN  [k \in DOMAIN h |->
            [h[k] EXCEPT !.cooldown_until = moved(h[k].cooldown_until),
                         !.last_ok_at = moved(h[k].last_ok_at),
                         !.consecutive_failures = Min(h[k].consecutive_failures, threshold)]]

\* provider.probe, which answers ok for the working candidate
ProbeDaily ==
    \E pr \in ProbeResults :
        /\ pc = "probe"
        /\ candidates[idx] = Working => pr.ok
        /\ Probe(pr)

\* _fetch_with_retry, which succeeds for the working candidate
FetchDaily ==
    \E o1 \in FetchOutcomes, o2 \in FetchOutcomes :
        /\ pc = "fetch"
        /\ candidates[idx] = Working => Returns \in {o1, o2}
        /\ Fetch(<<o1, o2>>)

\* between two runs a day and an hour pass: the fetch_attempts rows are then
\* older than the 24 hours _refresh_metrics looks back
DayPasses ==
    /\ pc = "idle"
    /\ health' = AfterADay(health, fail_threshold)
    /\ fetch_attempts' = <<>>
    /\ UNCHANGED <<now, retry_backoff_ms, preferred_provider, pc, callvars, skip_ret,
                   fixedvars, syncvars>>

DailyInit ==
    /\ InitDB
    /\ OneSubscription
    /\ fail_threshold \in {Max(n, 1) : n \in 0..MaxFailThreshold}
    /\ max_candidates \in {Max(n, 1) : n \in 0..MaxMaxCandidates}
    /\ retry_backoff_ms = 800
    /\ discovered \in {d \in SUBSET (Keys \ {"ghost_u"}) : Working \in d}
    /\ fetch_in = <<Returns, Returns>>
    /\ responses = <<>>
    /\ ServicesIdle

DailyNext ==
    \/ Start
    \/ LoopExhausted
    \/ LoopCircuitSkip
    \/ LoopProceed
    \/ ProbeDaily
    \/ FetchDaily
    \/ Return
    \/ DayPasses

\* a step that starts a call, as Start does whenever it can
StartRun ==
    /\ pc = "idle"
    /\ Len(fetch_attempts) < MaxLog
    /\ pc' \in {"loop", "done"}

\* the scheduler goes on starting runs, a call that was started runs until it
\* returns, and time goes on
DailyFairness ==
    /\ WF_pc(StartRun)
    /\ WF_vars(LoopExhausted \/ LoopCircuitSkip \/ LoopProceed)
    /\ WF_vars(ProbeDaily)
    /\ WF_vars(FetchDaily)
    /\ WF_vars(Return)
    /\ WF_vars(DayPasses)

\* runs for ever, some within the hour and some days apart; every candidate's
\* provider is registered
DailySpec == DailyInit /\ [][DailyNext]_vars /\ DailyFairness

(* --------------------- sync over a feed while time passes --------------- *)

\* TemplateFeedProvider.midnight_shift_days, in hours
MidnightShift == 2 * HoursPerDay

\* An entry of the feed: its id ("" for none), its link, its published date
\* (<<>> for none) and whether the text of the date shows midnight
FeedEntry(id, link, published, midnight) ==
    [id |-> id, link |-> link, published |-> published, midnight |-> midnight]

\* the entries the feed lists at time t: an entry with a date is listed from
\* that time on
Listed(entries, t) ==
    SelectSeq(entries, LAMBDA e : e.published = <<>> \/ e.published[1] <= t)

\* the external_id parse_feed gives: the id, or f"{url}#{published_at.isoformat()}"
ExternalId(id, url, published_at) ==
    IF id # "" THEN [id |-> id, url |-> "", at |-> 0]
    ELSE [id |-> "", url |-> url, at |-> published_at]

\* parse_feed for one entry, called at time t
parse_entry(e, source_url, t) ==
    LET url == IF e.link # "" THEN e.link ELSE source_url
        published_at == IF e.published # <<>> THEN e.published[1] ELSE t
    IN  RawArticle(ExternalId(e.id, url, published_at), "t1", url, published_at, "x1", "h1")
        @@ [is_midnight_publish |-> e.midnight]

\* parse_feed(content, source_url) called at time t
parse_feed(entries, source_url, t) ==
    [i \in 1..Len(entries) |-> parse_entry(entries[i], source_url, t)]

\* shift_midnight_publish_time
shift_midnight_publish_time(dt, is_midnight_publish) ==
    IF is_midnight_publish THEN dt + MidnightShift ELSE dt

\* the articles of a list whose external_id no earlier one has
DedupById(list) ==
    LET keep == {i \in 1..Len(list) :
                    \A j \in 1..(i - 1) : list[j].external_id # list[i].external_id}
    IN  SelectSeq([i \in 1..Len(list) |-> [pos |-> i, a |-> list[i]]],
                  LAMBDA x : x.pos \in keep)

\* TemplateFeedProvider.fetch(source_url, since) at time t, for the entries
\* the feed lists then
TemplateFetch(entries, source_url, since, t) ==
    LET parsed == parse_feed(Listed(entries, t), source_url, t)
        shifted == [i \in 1..Len(parsed) |->
                       [parsed[i] EXCEPT !.published_at =
                           shift_midnight_publish_time(parsed[i].published_at,
                                                       parsed[i].is_midnight_publish)]]
        filtered == SelectSeq(shifted, LAMBDA a : a.published_at >= since)
        deduped == DedupById(filtered)
    IN  [i \in 1..Len(deduped) |-> deduped[i].a]

\* one turn of the loop of sync: the resolver gives the source and the
\* fetcher fetches its feed
FeedSync ==
    /\ spc = "loop"
    /\ cur <= Len(sub_ids)
    /\ ~use_gateway
    /\ LET sub == sub_ids[cur]
           rr == [ok |-> TRUE, source_url |-> "u1", error |-> ""]
           fo == [type |-> "return", articles |-> TemplateFetch(feed, "u1", Since(sub), now),
                  message |-> "", db_error |-> FALSE]
       IN  LoopTurn(_sync_subscription_v1(Session, Len(sync_runs), sub, rr, fo, now), sub)
    /\ UNCHANGED <<now, gatewayvars>>

\* time passes while sync runs
TickInRun ==
    /\ spc = "loop"
    /\ now < MaxTime
    /\ now' = now + 1
    /\ UNCHANGED <<retry_backoff_ms, health, fetch_attempts, preferred_provider, pc,
                   callvars, skip_ret, fixedvars, syncvars>>

\* the feeds: up to MaxEntries entries, with or without an id, with or
\* without a date
Feeds ==
    UNION {[1..n -> {FeedEntry(id, "", published, midnight) :
                        id \in {"", "g1"},
                        published \in {<<>>} \cup {<<p>> : p \in 0..MaxTime},
                        midnight \in BOOLEAN}] : n \in 0..MaxEntries}

FeedInit ==
    /\ InitDB
    /\ fail_threshold = 1
    /\ max_candidates = 1
    /\ retry_backoff_ms = 800
    /\ discovered = {}
    /\ fetch_in = <<Returns, Returns>>
    /\ responses = <<>>
    /\ RankIdle /\ DiscIdle /\ ViewIdle /\ CovIdle
    /\ RecIdle /\ SumIdle /\ WebIdle
    /\ feed \in Feeds
    /\ use_gateway = FALSE
    /\ incremental_sync_enabled \in BOOLEAN
    /\ sync_overlap_seconds \in 0..MaxOverlap
    /\ sub_ids = <<1>>
    /\ InitTables

FeedNext ==
    \/ SyncStart
    \/ FeedSync
    \/ SyncFinish
    \/ Commit
    \/ Tick
    \/ TickInRun

\* sync runs of one subscription over its feed, time passing between the runs
\* and within them
FeedSpec == FeedInit /\ [][FeedNext]_vars

(* ------------------- WeChatWebDiscoveryProvider, alone ------------------ *)

\* the official account the subscription is bound to (SubscriptionBinder.bound_user_name)
BoundUser == "gh_1"

\* the dates view and discover ask for
TargetDates == {1, 2}

\* what refresh_contacts and sync of the sync client do in one call: raise, or
\* return a batch whose messages carry these article refs
SyncOutcomes ==
    {[type |-> "raise", refs |-> <<>>],
     [type |-> "return", refs |-> <<>>],
     [type |-> "return", refs |-> <<[from_user_name |-> "gh_1", url |-> "a1"]>>],
     [type |-> "return", refs |-> <<[from_user_name |-> "gh_2", url |-> "a2"],
                                    [from_user_name |-> "gh_1", url |-> "a1"]>>]}

\* _index_refs: the refs as DiscoveredArticleRef, in a bucket for each sender
_index_refs(refs) ==
    LET senders == {refs[i].from_user_name : i \in DOMAIN refs}
        bucket(n) == SelectSeq(refs, LAMBDA r : r.from_user_name = n)
    IN  [n \in senders |->
            [i \in 1..Len(bucket(n)) |->
                [url |-> bucket(n)[i].url, channel |-> "wechat_web", confidence |-> 95]]]

\* _ensure_synced(target_date) at time t, the sync client doing outcome: the
\* provider and the vault after it, the exception it raised if any, and
\* whether it called the sync client
_ensure_synced(provider, vault, target_date, outcome, t) ==
    LET fresh == [_cache_date |-> <<target_date>>,
                  _refs_by_official |-> <<>>,
                  _last_metrics |-> [sync_batches |-> 0, article_refs_extracted |-> 0,
                                     blocked_by_auth |-> 0]]
        blocked == [fresh EXCEPT !._last_metrics.blocked_by_auth = 1]
    IN  IF provider._cache_date = <<target_date>>
        THEN [provider |-> provider, vault |-> vault, raised |-> "", synced |-> FALSE]
        ELSE IF vault = <<>>
        THEN [provider |-> blocked, vault |-> vault, raised |-> "AUTH_REQUIRED", synced |-> FALSE]
        ELSE IF vault[1].expires_at <= t
        THEN [provider |-> blocked, vault |-> vault, raised |-> "AUTH_REQUIRED", synced |-> FALSE]
        ELSE IF outcome.type = "raise"
        THEN [provider |-> fresh, vault |-> vault, raised |-> "boom", synced |-> TRUE]
        ELSE [provider |-> [fresh EXCEPT !._refs_by_official = _index_refs(outcome.refs),
                                         !._last_metrics.sync_batches = 1,
                                         !._last_metrics.article_refs_extracted = Len(outcome.refs)],
              vault |-> vault, raised |-> "", synced |-> TRUE]

\* search_for_subscription(sub, target_date) for a subscription bound to
\* BoundUser: what the call did, and the provider and the vault after it
search_for_subscription(provider, vault, target_date, outcome, t) ==
    LET r == _ensure_synced(provider, vault, target_date, outcome, t)
        refs == IF BoundUser \in DOMAIN r.provider._refs_by_official
                THEN r.provider._refs_by_official[BoundUser] ELSE <<>>
    IN  [provider |-> r.provider,
         vault |-> r.vault,
         out |-> IF r.raised # ""
                 THEN [type |-> "raise", target_date |-> target_date, refs |-> <<>>,
                       message |-> r.raised, synced |-> r.synced]
                 ELSE [type |-> "return", target_date |-> target_date, refs |-> refs,
                       message |-> "", synced |-> r.synced]]

\* a caller searches for the subscription's articles of a date
SearchForSubscription ==
    \E target_date \in TargetDates, outcome \in SyncOutcomes :
        LET r == search_for_subscription(web_provider, session_vault, target_date, outcome, now) IN
        /\ web_provider' = r.provider
        /\ session_vault' = r.vault
        /\ web_out' = r.out
        /\ UNCHANGED besidesweb

\* wechat-agent login: the vault gets a session that expires later than now
Login ==
    /\ \E expires_at \in (now + 1)..(MaxTime + 1) :
           session_vault' = <<[expires_at |-> expires_at]>>
    /\ UNCHANGED <<besidesweb, web_provider, web_out>>

\* wechat-agent logout: the vault forgets the session
Logout ==
    /\ session_vault # <<>>
    /\ session_vault' = <<>>
    /\ UNCHANGED <<besidesweb, web_provider, web_out>>

WebInit ==
    /\ Quiet
    /\ RankIdle /\ DiscIdle /\ ViewIdle /\ CovIdle
    /\ RecIdle /\ SumIdle /\ FeedIdle
    /\ WebIdle

WebNext == SearchForSubscription \/ Login \/ Logout \/ Tick

\* one WeChatWebDiscoveryProvider instance searched again and again while
\* sessions come and go
WebSpec == WebInit /\ [][WebNext]_vars

(* ------------------------------ properties ----------------------------- *)

\* the statuses of the FetchAttempt rows of key k, oldest first
StatusesOf(k) ==
    LET rows == SelectSeq(fetch_attempts, LAMBDA r : r.key = k)
    IN  [i \in 1..Len(rows) |-> rows[i].status]

\* the length of the FAILED suffix of a sequence of statuses
RECURSIVE FailedSuffix(_)
FailedSuffix(st) ==
    IF st = <<>> \/ st[Len(st)] # FETCH_STATUS_FAILED THEN 0
    ELSE 1 + FailedSuffix(SubSeq(st, 1, Len(st) - 1))

\* the number of FAILED statuses behind the last SUCCESS
RECURSIVE FailedSinceSuccess(_)
FailedSinceSuccess(st) ==
    IF st = <<>> \/ st[Len(st)] = FETCH_STATUS_SUCCESS THEN 0
    ELSE (IF st[Len(st)] = FETCH_STATUS_FAILED THEN 1 ELSE 0)
         + FailedSinceSuccess(SubSeq(st, 1, Len(st) - 1))

\* this step is a record_attempt for key k with this status
Recorded(k, status) ==
    /\ Len(fetch_attempts') = Len(fetch_attempts) + 1
    /\ fetch_attempts'[Len(fetch_attempts')].key = k
    /\ fetch_attempts'[Len(fetch_attempts')].status = status

\* the FetchAttempt rows the running call appended
CallRows == SubSeq(fetch_attempts, call_start + 1, Len(fetch_attempts))

\* the rank of key k in the running call's candidate list (0: not in it)
PosOf(k) ==
    IF \E i \in 1..Len(candidates) : candidates[i] = k
    THEN CHOOSE i \in 1..Len(candidates) : candidates[i] = k
    ELSE 0

\* the row of k is OPEN in table h and still cooling down at time t
Cooling(h, k, t) ==
    /\ k \in DOMAIN h
    /\ h[k].state = HEALTH_STATE_OPEN
    /\ h[k].cooldown_until # <<>>
    /\ t < h[k].cooldown_until[1]

\* C1: a FAILED record that brings consecutive_failures to fail_threshold or
\* more leaves the row OPEN with cooldown_until = time of the record +
\* cooldown, which is later than now; fail_threshold FAILED records in a row
\* always end in OPEN.
C1_FailedAtThresholdOpens ==
    [][\A k \in Keys :
         Recorded(k, FETCH_STATUS_FAILED) =>
            /\ health'[k].consecutive_failures >= fail_threshold =>
                  /\ health'[k].state = HEALTH_STATE_OPEN
                  /\ health'[k].cooldown_until = <<now' + CooldownHours>>
                  /\ health'[k].cooldown_until[1] > now'
            /\ FailedSuffix(StatusesOf(k))' >= fail_threshold =>
                  health'[k].state = HEALTH_STATE_OPEN]_vars

\* C1 witness: exactly fail_threshold FAILED records, the first on a new
\* row, have opened the circuit
C1_Witness ==
    \E k \in DOMAIN health :
        /\ fail_threshold = MaxFailThreshold
        /\ Len(StatusesOf(k)) = fail_threshold
        /\ FailedSuffix(StatusesOf(k)) = fail_threshold
        /\ health[k].state = HEALTH_STATE_OPEN
        /\ health[k].cooldown_until = <<now + CooldownHours>>

\* the running call recorded SKIPPED with CIRCUIT_OPEN for key k
SkippedInCall(k) ==
    \E i \in 1..Len(CallRows) :
        /\ CallRows[i].key = k
        /\ CallRows[i].status = FETCH_STATUS_SKIPPED
        /\ CallRows[i].error_kind = "CIRCUIT_OPEN"

\* the running call made no probe and no fetch on key k
NoProviderCall(k) == \A i \in 1..Len(io) : io[i].key # k

\* C2 as stated: a candidate that is OPEN and cooling down when a
\* fetch_with_failover call begins gets a SKIPPED(CIRCUIT_OPEN) FetchAttempt
\* from that call, and no probe or fetch.
C2_CoolingAlwaysSkipped ==
    pc = "done" =>
        \A k \in Keys :
            (PosOf(k) > 0 /\ Cooling(health0, k, now)) =>
                SkippedInCall(k) /\ NoProviderCall(k)

\* C2 amended: a candidate that is OPEN and cooling down when the call begins
\* is never probed or fetched by it, and gets a SKIPPED(CIRCUIT_OPEN)
\* FetchAttempt if the call examines it, that is if it is among the first
\* `attempts` candidates of the ranked list.
C2_CoolingSkippedWhenExamined ==
    \A k \in Keys :
        Cooling(health0, k, now) =>
            /\ pc # "idle" => NoProviderCall(k)
            /\ (pc = "done" /\ PosOf(k) \in 1..attempts) => SkippedInCall(k)

\* C2 witness: a finished call has skipped a cooling candidate
C2_Witness ==
    /\ pc = "done"
    /\ \E k \in Keys :
          /\ Cooling(health0, k, now)
          /\ PosOf(k) \in 1..attempts
          /\ SkippedInCall(k)

\* this step is a should_skip_for_circuit(k) made by a direct caller
SkipAsked(k) ==
    /\ skip_ret'.key = k
    /\ fetch_attempts' = fetch_attempts
    /\ now' = now

\* C3: asked about a row that is OPEN with its cooldown over,
\* should_skip_for_circuit answers false and moves it to HALF_OPEN; asked
\* again it answers false and leaves HALF_OPEN as it is; the query appends
\* no FetchAttempt and calls no provider, and OPEN -> HALF_OPEN happens in no
\* other way.
C3_HalfOpensOnce ==
    [][\A k \in DOMAIN health :
         /\ (SkipAsked(k) /\ health[k].state = HEALTH_STATE_OPEN /\ ~Cooling(health, k, now)) =>
               /\ skip_ret'.skip = FALSE
               /\ health'[k].state = HEALTH_STATE_HALF_OPEN
               /\ health' = [health EXCEPT ![k].state = HEALTH_STATE_HALF_OPEN]
               /\ io' = io
         /\ (SkipAsked(k) /\ health[k].state = HEALTH_STATE_HALF_OPEN) =>
               /\ skip_ret'.skip = FALSE
               /\ health' = health
               /\ io' = io
         /\ (health[k].state = HEALTH_STATE_OPEN /\ health'[k].state = HEALTH_STATE_HALF_OPEN) =>
               /\ ~Cooling(health, k, now)
               /\ fetch_attempts' = fetch_attempts
               /\ io' = io]_vars

\* C3 witness: the query found the cooldown over and the row is HALF_OPEN
C3_Witness ==
    \E k \in DOMAIN health :
        /\ skip_ret = [key |-> k, skip |-> FALSE]
        /\ health[k].state = HEALTH_STATE_HALF_OPEN
        /\ health[k].cooldown_until # <<>>
        /\ health[k].cooldown_until[1] <= now

\* C4 as stated: consecutive_failures of every health row is the length of
\* the FAILED suffix of the row's FetchAttempt sequence.
C4_CountIsFailedSuffix ==
    \A k \in DOMAIN health :
        health[k].consecutive_failures = FailedSuffix(StatusesOf(k))

\* C4 amended: consecutive_failures is the number of FAILED records behind
\* the last SUCCESS, SKIPPED records neither counting nor resetting it; it is
\* 0 right after a SUCCESS, and every key with a record has a health row.
C4_CountIsFailedSinceSuccess ==
    /\ \A k \in Keys : StatusesOf(k) # <<>> => k \in DOMAIN health
    /\ \A k \in DOMAIN health :
          /\ health[k].consecutive_failures = FailedSinceSuccess(StatusesOf(k))
          /\ (StatusesOf(k) # <<>> /\ StatusesOf(k)[Len(StatusesOf(k))] = FETCH_STATUS_SUCCESS)
                => health[k].consecutive_failures = 0

\* C4 witness: a SKIPPED record follows FAILED ones and the count stands
C4_Witness ==
    \E k \in DOMAIN health :
        /\ Len(StatusesOf(k)) >= 2
        /\ StatusesOf(k)[Len(StatusesOf(k))] = FETCH_STATUS_SKIPPED
        /\ health[k].consecutive_failures >= 1
        /\ health[k].consecutive_failures = FailedSinceSuccess(StatusesOf(k))

\* C5: a FAILED record on a HALF_OPEN row puts it back to OPEN with
\* cooldown_until = time of the record + cooldown, whatever fail_threshold
\* is; no row is HALF_OPEN right after a FAILED record.
C5_HalfOpenFailureReopens ==
    [][\A k \in Keys :
         Recorded(k, FETCH_STATUS_FAILED) =>
            /\ health'[k].state # HEALTH_STATE_HALF_OPEN
            /\ (k \in DOMAIN health /\ health[k].state = HEALTH_STATE_HALF_OPEN) =>
                  /\ health'[k].state = HEALTH_STATE_OPEN
                  /\ health'[k].cooldown_until = <<now' + CooldownHours>>]_vars

\* C5 witness: a call found the cooldown over, tried the candidate, failed,
\* and the row is OPEN again with one failure more than the threshold
C5_Witness ==
    \E k \in DOMAIN health \cap DOMAIN health0 :
        /\ pc = "loop"
        /\ health0[k].state = HEALTH_STATE_OPEN
        /\ ~Cooling(health0, k, now)
        /\ CallRows # <<>>
        /\ CallRows[Len(CallRows)].key = k
        /\ CallRows[Len(CallRows)].status = FETCH_STATUS_FAILED
        /\ health[k].state = HEALTH_STATE_OPEN
        /\ health[k].consecutive_failures = health0[k].consecutive_failures + 1
        /\ health[k].cooldown_until = <<now + CooldownHours>>

\* C6: a SUCCESS record leaves the row CLOSED with consecutive_failures = 0,
\* cooldown_until = null and last_ok_at = the time of the record, whatever
\* the row was before.
C6_SuccessCloses ==
    [][\A k \in Keys :
         Recorded(k, FETCH_STATUS_SUCCESS) =>
            /\ health'[k].state = HEALTH_STATE_CLOSED
            /\ health'[k].consecutive_failures = 0
            /\ health'[k].cooldown_until = <<>>
            /\ health'[k].last_ok_at = <<now'>>
            /\ health'[k].last_ok_at =
                  <<fetch_attempts'[Len(fetch_attempts')].created_at>>]_vars

\* C6 witness: a SUCCESS was recorded on a row that the failures before it
\* had opened, and the row is closed and clean
C6_Witness ==
    \E k \in DOMAIN health :
        LET st == StatusesOf(k) IN
        /\ Len(st) > fail_threshold
        /\ st[Len(st)] = FETCH_STATUS_SUCCESS
        /\ \A i \in 1..(Len(st) - 1) : st[i] = FETCH_STATUS_FAILED
        /\ health[k].state = HEALTH_STATE_CLOSED
        /\ health[k].consecutive_failures = 0
        /\ health[k].cooldown_until = <<>>
        /\ health[k].last_ok_at # <<>>

\* the provider calls of the running call that are probes
ProbesInCall == SelectSeq(io, LAMBDA c : c.op = "probe")

\* C7: fetch_with_failover goes through the candidates in rank order and
\* stops at the first whose probe and fetch succeed: it records SUCCESS for
\* it, returns its articles with it, and makes no probe, no fetch and no
\* FetchAttempt for a candidate ranked after it.
C7_StopsAtFirstSuccess ==
    pc # "idle" =>
        /\ candidates = discover_candidates(discovered, preferred_provider, health0, now)
        /\ \A i, j \in 1..Len(io) : i < j => PosOf(io[i].key) <= PosOf(io[j].key)
        /\ \A i, j \in 1..Len(CallRows) :
               i < j => PosOf(CallRows[i].key) < PosOf(CallRows[j].key)
        /\ \A i \in 1..Len(io) : PosOf(io[i].key) \in 1..idx
        /\ \A i \in 1..Len(CallRows) : PosOf(CallRows[i].key) \in 1..idx
        /\ \A i \in 1..Len(CallRows) :
               CallRows[i].status = FETCH_STATUS_SUCCESS =>
                  /\ i = Len(CallRows)
                  /\ pc = "done"
                  /\ result.ok
                  /\ result.candidate = CallRows[i].key
        /\ (pc = "done" /\ result.ok) =>
              /\ result.candidate = candidates[idx]
              /\ CallRows # <<>>
              /\ CallRows[Len(CallRows)].key = result.candidate
              /\ CallRows[Len(CallRows)].status = FETCH_STATUS_SUCCESS
              /\ \A a \in DOMAIN result.articles :
                     result.articles[a].source = result.candidate
              /\ \E i \in 1..Len(io) :
                     io[i] = [op |-> "probe", key |-> result.candidate, kind |-> "ok"]
              /\ io[Len(io)] = [op |-> "fetch", key |-> result.candidate, kind |-> "ok"]

\* C7 witness: the call returned a success although a later-ranked candidate
\* with a registered provider was still within max_candidates
C7_Witness ==
    /\ pc = "done"
    /\ result.ok
    /\ result.articles # <<>>
    /\ idx < Len(candidates)
    /\ attempts < max_candidates
    /\ ProviderOf(candidates[idx + 1]) \in Providers
    /\ ~Cooling(health, candidates[idx + 1], now)

C9_AtMostMaxCandidates ==
    pc # "idle" =>
        /\ attempts <= max_candidates
        /\ idx - 1 <= max_candidates
        /\ Len(ProbesInCall) <= max_candidates
        /\ Len(CallRows) <= max_candidates
        /\ \A i \in 1..Len(io) : PosOf(io[i].key) <= max_candidates

\* C9 witness: the call gave up after max_candidates candidates while the
\* next one in rank order, with a registered provider and a closed circuit,
\* was left untouched
C9_Witness ==
    /\ pc = "done"
    /\ ~result.ok
    /\ attempts = max_candidates
    /\ Len(ProbesInCall) = max_candidates
    /\ Len(CallRows) = max_candidates
    /\ Len(candidates) > max_candidates
    /\ ProviderOf(candidates[max_candidates + 1]) \in Providers
    /\ ~Cooling(health, candidates[max_candidates + 1], now)
    /\ NoProviderCall(candidates[max_candidates + 1])

\* C10 as stated: a failure returned after the candidates are exhausted
\* carries the error_kind and error_message of the last FetchAttempt the call
\* appended, and the UNKNOWN placeholder only if it appended none.
C10_FailureCarriesLastAttempt ==
    (pc = "done" /\ ~result.ok /\ candidates # <<>>) =>
        IF CallRows # <<>>
        THEN /\ result.error_kind = CallRows[Len(CallRows)].error_kind
             /\ result.error_message = CallRows[Len(CallRows)].error_message
        ELSE result.error_kind = "UNKNOWN"

\* the error kinds classify_error and the gateway itself give a failure
ErrorKinds ==
    {"TIMEOUT", "BLOCKED", "NOT_FOUND", "HTTP_4XX", "HTTP_5XX", "HTTP_ERROR", "NETWORK",
     "PARSE_EMPTY", "UNKNOWN", "CIRCUIT_OPEN"}

\* C11 as stated: whatever discover, probe and fetch of the registered
\* providers do, raising included, fetch_with_failover does not raise: each
\* call ends by returning a SourceFetchResult, whose error_kind is a
\* classified one when it is a failure.
C11_NeverRaises ==
    /\ pc # "raised"
    /\ (pc = "done" /\ ~result.ok) => result.error_kind \in ErrorKinds

\* the items of the latest run
RunItems == SelectSeq(sync_run_items, LAMBDA it : it.sync_run_id = Len(sync_runs))

\* C12 as stated: an error while one subscription is processed (a database
\* write error, an exception raised while fetching) aborts that subscription
\* only: sync does not leave by the exception, and the run it returns has
\* its finished_at set and an item for every subscription.
C12_ErrorAbortsOneSubscription ==
    /\ spc # "raised"
    /\ spc = "returned" =>
          /\ sync_runs[Len(sync_runs)].finished_at # <<>>
          /\ \A i \in DOMAIN sub_ids : \E j \in DOMAIN RunItems : RunItems[j].subscription_id = sub_ids[i]

\* the articles of a table, as the set of their (subscription, external_id)
ArticleSet(arts) == {<<arts[i].subscription_id, arts[i].external_id>> : i \in DOMAIN arts}

\* C13 as stated: there is at most one Article per (subscription,
\* external_id), and a run that follows another over the same inputs and
\* provider responses leaves the set of Articles as the earlier run left it
\* and reports the same success_count and fail_count.
C13_SecondRunIdempotent ==
    /\ \A i, j \in DOMAIN articles :
           (articles[i].subscription_id = articles[j].subscription_id
            /\ articles[i].external_id = articles[j].external_id) => i = j
    /\ (spc = "returned" /\ Len(sync_runs) >= 2) =>
          /\ ArticleSet(articles) = ArticleSet(committed.articles)
          /\ sync_runs[Len(sync_runs)].success_count = sync_runs[Len(sync_runs) - 1].success_count
          /\ sync_runs[Len(sync_runs)].fail_count = sync_runs[Len(sync_runs) - 1].fail_count

\* a turn of the loop of sync: a subscription was processed
Turn == spc = "loop" /\ spc' = "loop" /\ cur' = cur + 1

\* C14: when a subscription is processed, every article that existed before
\* keeps its title, url, identity and fetched_at; its content_excerpt and
\* raw_hash change only to a non-empty value; no Article, ArticleSummary or
\* ArticleEmbedding row is added for a (subscription, external_id) that
\* existed; and the item's new_count counts the inserted rows only.
C14_ExistingArticleKept ==
    [][Turn =>
        LET n == Len(articles)
            item == sync_run_items'[Len(sync_run_items')]
        IN  /\ Len(articles') >= n
            /\ \A i \in 1..n :
                  /\ articles'[i].subscription_id = articles[i].subscription_id
                  /\ articles'[i].external_id = articles[i].external_id
                  /\ articles'[i].title = articles[i].title
                  /\ articles'[i].url = articles[i].url
                  /\ articles'[i].fetched_at = articles[i].fetched_at
                  /\ articles'[i].content_excerpt # articles[i].content_excerpt
                        => articles'[i].content_excerpt # ""
                  /\ articles'[i].raw_hash # articles[i].raw_hash => articles'[i].raw_hash # ""
                  /\ article_summaries'[i] = article_summaries[i]
            /\ \A i \in (n + 1)..Len(articles') :
                  /\ <<articles'[i].subscription_id, articles'[i].external_id>> \notin ArticleSet(articles)
                  /\ \A j \in (n + 1)..Len(articles') :
                        articles'[j].external_id = articles'[i].external_id => i = j
            /\ Len(article_summaries') = Len(articles')
            /\ article_embeddings' = article_embeddings \cup ((n + 1)..Len(articles'))
            /\ item.new_count = Len(articles') - n
    ]_vars

\* C14 witness: an article inserted with title t1 and excerpt x1 was
\* observed again with another title, a later time and no excerpt: the time
\* was taken, the title and the excerpt kept, and the run that observed it
\* reported no new row for it
C14_Witness ==
    /\ spc = "returned"
    /\ Len(sync_runs) = 2
    /\ \E i \in DOMAIN articles :
          /\ articles[i].external_id = "e1"
          /\ articles[i].title = "t1"
          /\ articles[i].url = "u1"
          /\ articles[i].published_at = 2
          /\ articles[i].content_excerpt = "x1"
          /\ articles[i].fetched_at = sync_runs[1].started_at
          /\ \E j \in DOMAIN RunItems :
                /\ RunItems[j].subscription_id = articles[i].subscription_id
                /\ RunItems[j].status = SYNC_ITEM_STATUS_SUCCESS
                /\ RunItems[j].new_count = 1

\* the finished_at of the finished runs in which sub has a SUCCESS item
SuccessTimes(sub) ==
    {sync_runs[sync_run_items[i].sync_run_id].finished_at[1] :
        i \in {j \in DOMAIN sync_run_items :
                  /\ sync_run_items[j].subscription_id = sub
                  /\ sync_run_items[j].status = SYNC_ITEM_STATUS_SUCCESS
                  /\ sync_runs[sync_run_items[j].sync_run_id].finished_at # <<>>}}

\* C15: the since a subscription is processed with is day_start when
\* incremental sync is off or the subscription has no SUCCESS item in a
\* finished run, and otherwise the larger of day_start and the latest such
\* run's finished_at minus the overlap; it is never below day_start and
\* never below the since the subscription was processed with before.
C15_SinceRule ==
    [][Turn =>
        LET sub == sub_ids[cur]
            since == last_since'[sub]
        IN  /\ since = IF ~incremental_sync_enabled \/ SuccessTimes(sub) = {}
                       THEN day_start
                       ELSE LET last_finished_at == CHOOSE v \in SuccessTimes(sub) :
                                                        \A w \in SuccessTimes(sub) : w <= v
                            IN  IF last_finished_at - sync_overlap_seconds > day_start
                                THEN last_finished_at - sync_overlap_seconds
                                ELSE day_start
            /\ since >= day_start
            /\ sub \in DOMAIN last_since => since >= last_since[sub]
    ]_vars

\* C15 witness: a subscription that succeeded in a finished run is processed
\* again with a since above day_start, after having been processed with
\* day_start
C15_Witness ==
    /\ spc = "loop"
    /\ cur > 1
    /\ incremental_sync_enabled
    /\ Len(sync_runs) = 2
    /\ last_since[sub_ids[1]] > day_start
    /\ SuccessTimes(sub_ids[1]) # {}

\* C16 as stated: once a subscription is processed, its status agrees with
\* its item of the run on both paths: with a FAILED item it is MATCH_FAILED
\* and has a last_error, with a SUCCESS item it is ACTIVE and has none.
C16_StatusAgreesWithItem ==
    spc \in {"loop", "returned"} =>
        \A j \in DOMAIN RunItems :
            LET sub == subscriptions[RunItems[j].subscription_id] IN
            IF RunItems[j].status = SYNC_ITEM_STATUS_FAILED
            THEN sub.source_status = SOURCE_STATUS_MATCH_FAILED /\ sub.last_error # ""
            ELSE sub.source_status = SOURCE_STATUS_ACTIVE /\ sub.last_error = ""

\* the number of items of the latest run with this status
CountItems(status) == Len(SelectSeq(RunItems, LAMBDA it : it.status = status))

\* the run sync is working on, or has just returned
InRun == spc \in {"loop", "returned"}

\* C17: at every point of a run, its items are one per subscription
\* processed so far, in the ascending order of the subscription ids, and
\* success_count and fail_count are the numbers of its SUCCESS and FAILED
\* items; when sync returns they add up to the number of subscriptions; and
\* no step of the run lowers a counter.
C17_ItemsAndCounters ==
    /\ [](InRun =>
            /\ Len(RunItems) = cur - 1
            /\ \A j \in DOMAIN RunItems : RunItems[j].subscription_id = sub_ids[j]
            /\ \A j \in DOMAIN RunItems : j > 1 =>
                   RunItems[j - 1].subscription_id < RunItems[j].subscription_id
            /\ sync_runs[Len(sync_runs)].success_count = CountItems(SYNC_ITEM_STATUS_SUCCESS)
            /\ sync_runs[Len(sync_runs)].fail_count = CountItems(SYNC_ITEM_STATUS_FAILED)
            /\ spc = "returned" =>
                   /\ sync_runs[Len(sync_runs)].finished_at # <<>>
                   /\ sync_runs[Len(sync_runs)].success_count + sync_runs[Len(sync_runs)].fail_count
                         = Len(sub_ids))
    /\ [][(InRun /\ InRun') =>
            /\ sync_runs'[Len(sync_runs')].success_count >= sync_runs[Len(sync_runs)].success_count
            /\ sync_runs'[Len(sync_runs')].fail_count >= sync_runs[Len(sync_runs)].fail_count
            /\ Len(RunItems') >= Len(RunItems)
       ]_vars

\* C17 witness: a run over two subscriptions returned with one SUCCESS and
\* one FAILED item and both counters at 1
C17_Witness ==
    /\ spc = "returned"
    /\ Len(RunItems) = 2
    /\ RunItems[1].status = SYNC_ITEM_STATUS_FAILED
    /\ RunItems[2].status = SYNC_ITEM_STATUS_SUCCESS
    /\ sync_runs[Len(sync_runs)].success_count = 1
    /\ sync_runs[Len(sync_runs)].fail_count = 1

\* C18: a run calls the summarizer only for articles it inserted itself, and
\* the ArticleSummary of every article that existed before the run is as it
\* was, whether or not the run observed the article again.
C18_SummarizeOnlyNew ==
    InRun =>
        /\ \A c \in DOMAIN summarize_calls : summarize_calls[c] > Len(committed.articles)
        /\ \A c \in DOMAIN summarize_calls :
               \E n \in DOMAIN new_article_ids : new_article_ids[n] = summarize_calls[c]
        /\ \A i \in DOMAIN committed.articles : article_summaries[i] = committed.article_summaries[i]

\* C18 witness: a second run returned that summarized an article it
\* inserted, and observed an earlier article whose summary was made of the
\* title alone: the article got the observed excerpt, its summary stayed
C18_Witness ==
    /\ spc = "returned"
    /\ Len(sync_runs) = 2
    /\ summarize_calls # <<>>
    /\ \E i \in DOMAIN committed.articles :
          /\ committed.articles[i].content_excerpt = ""
          /\ articles[i].content_excerpt # ""
          /\ _needs_refresh(article_summaries[i].summary_text, article_summaries[i].model)

\* C19 as stated: when a run is interrupted between two subscriptions and
\* the session is closed, the articles of the subscriptions processed so far
\* are still in the database, and so is the run's row, with finished_at null
\* and a trigger that tells of the cancellation.
C19_CancelKeepsProgress ==
    [][(spc = "interrupted" /\ spc' = "idle") =>
          /\ \A i \in DOMAIN articles : i \in DOMAIN articles' /\ articles'[i] = articles[i]
          /\ Len(sync_runs') = Len(sync_runs)
          /\ sync_runs'[Len(sync_runs')].finished_at = <<>>
          /\ sync_runs'[Len(sync_runs')].trigger # "view"
    ]_vars

\* C20 as stated: whatever discover_candidates calls and syncs took place,
\* in auto or manual mode, at most one subscription_sources row of the
\* subscription is pinned.
C20_AtMostOnePinned ==
    \A k1, k2 \in DOMAIN subscription_sources :
        (subscription_sources[k1].is_pinned /\ subscription_sources[k2].is_pinned) => k1 = k2

\* a metadata_json that is the JSON object {legacy: true}, however spaced
CarriesLegacy(metadata) == metadata \in {LegacyJson, CompactLegacyJson}

\* C21 as stated: after every discover_candidates call, each manual row
\* whose metadata carries the legacy marker is not pinned, not active and
\* has a priority of at least 95, the rows the manual provider made of the
\* subscription's source_url included.
C21_LegacyDemoted ==
    [][\A k \in DOMAIN subscription_sources' :
          (k[1] = MANUAL_PROVIDER /\ CarriesLegacy(subscription_sources'[k].metadata_json)) =>
              /\ ~subscription_sources'[k].is_pinned
              /\ ~subscription_sources'[k].is_active
              /\ subscription_sources'[k].priority >= 95
    ]_vars

\* the score rank gives a candidate of rank_in, times ScoreScale
RankScore(c) ==
    IF c.key \in DOMAIN rank_in.health THEN rank_in.health[c.key].score
    ELSE c.confidence * ScoreScale

\* c is of the preferred provider of rank_in
RankPreferred(c) == rank_in.preferred # "" /\ c.provider = rank_in.preferred

\* a may stand before b in the ranking: pinned before not pinned, then the
\* preferred provider before the others, then the higher score, then the
\* lower priority, then the later discovery
MayPrecede(a, b) ==
    IF a.is_pinned # b.is_pinned THEN a.is_pinned
    ELSE IF RankPreferred(a) # RankPreferred(b) THEN RankPreferred(a)
    ELSE IF RankScore(a) # RankScore(b) THEN RankScore(a) > RankScore(b)
    ELSE IF a.priority # b.priority THEN a.priority < b.priority
    ELSE a.discovered_at >= b.discovered_at

\* C22: rank returns the candidates it was given, each once, in an order
\* where every pinned candidate stands before every candidate that is not
\* pinned whatever their scores, among equally pinned ones every candidate of
\* the preferred provider stands before every other, then the higher score,
\* the lower priority and the later discovery decide; pick_best returns the
\* first element of rank, and nothing for an empty list.
C22_RankOrder ==
    /\ rank_out.rank_done =>
          LET ranked == rank_out.ranked
          IN  /\ Len(ranked) = Len(rank_in.cands)
              /\ \A i \in 1..Len(rank_in.cands) : \E j \in 1..Len(ranked) : ranked[j] = rank_in.cands[i]
              /\ \A i, j \in 1..Len(ranked) : i < j => MayPrecede(ranked[i], ranked[j])
    /\ rank_out.pick_done =>
          IF rank_in.cands = <<>> THEN rank_out.picked = <<>>
          ELSE /\ Len(rank_out.picked) = 1
               /\ \E i \in 1..Len(rank_in.cands) : rank_in.cands[i] = rank_out.picked[1]
               /\ \A i \in 1..Len(rank_in.cands) : MayPrecede(rank_out.picked[1], rank_in.cands[i])
               /\ rank_out.rank_done => rank_out.picked[1] = rank_out.ranked[1]

\* rank has put a pinned candidate of score 0 before one of the preferred
\* provider with score 100 that is not pinned, and pick_best returned it
C22_Witness ==
    /\ rank_out.rank_done /\ rank_out.pick_done
    /\ Len(rank_out.ranked) = 2
    /\ rank_out.ranked[1].is_pinned /\ RankScore(rank_out.ranked[1]) = 0
    /\ rank_out.ranked[1].key = 2
    /\ ~RankPreferred(rank_out.ranked[1])
    /\ ~rank_out.ranked[2].is_pinned /\ RankScore(rank_out.ranked[2]) = 100 * ScoreScale
    /\ RankPreferred(rank_out.ranked[2])
    /\ rank_out.picked = <<rank_out.ranked[1]>>

\* the error taxonomy of fetch_attempts.error_kind and of SourceFetchResult
Taxonomy ==
    {"TIMEOUT", "BLOCKED", "NOT_FOUND", "HTTP_4XX", "HTTP_5XX", "NETWORK", "PARSE_EMPTY",
     "CIRCUIT_OPEN", "AUTH_EXPIRED", "SEARCH_EMPTY", "FETCH_BLOCKED", "UNKNOWN"}

\* C23 as stated: the error_kind of every failed SourceFetchResult that
\* _fetch_with_retry returns belongs to the taxonomy, whatever exception and
\* HTTP status the provider's fetch produced.
C23_ErrorKindInTaxonomy ==
    (fetch_out # NoFetch /\ ~fetch_out.ok) => fetch_out.error_kind \in Taxonomy

\* provider_notes[i] tells of a discovery provider that gave no ref with a url
GaveNothing(i) ==
    /\ provider_notes[i].name # "history_backtrack"
    /\ provider_notes[i].count = 0

\* C24: within a discover call the providers are consulted in their
\* configured order, each only after all earlier ones raised or returned no
\* ref with a url, so none is invoked after the first that returned such
\* refs, and the history backtrack is attempted only after every provider was
\* consulted and none yielded; the refs of the call are those of that first
\* provider.
C24_FirstYieldStops ==
    \A i \in 1..Len(provider_notes) :
        /\ \A j \in 1..(i - 1) : GaveNothing(j)
        /\ IF provider_notes[i].name = "history_backtrack"
           THEN i = Len(DiscoveryProviders) + 1
           ELSE /\ i <= Len(DiscoveryProviders)
                /\ provider_notes[i].name = DiscoveryProviders[i]
                /\ provider_notes[i].count > 0 =>
                      /\ Len(all_refs) = provider_notes[i].count
                      /\ \A k \in 1..Len(all_refs) :
                            all_refs[k].channel = DiscoveryProviders[i] /\ all_refs[k].url # ""

\* the first provider returned refs with a url, the call went past the loop
\* and returned without the second provider or the history being consulted
C24_Witness ==
    /\ dpc = "returned"
    /\ Len(provider_notes) = 1
    /\ provider_notes[1].name = "weread"
    /\ provider_notes[1].count = 2
    /\ disc_result.ok

\* the error kind of the last provider that raised in this call, and
\* SEARCH_EMPTY when none did
RECURSIVE LastRecordedError(_)
LastRecordedError(notes) ==
    IF notes = <<>> THEN "SEARCH_EMPTY"
    ELSE IF notes[Len(notes)].outcome = "error" THEN notes[Len(notes)].error_kind
    ELSE LastRecordedError(SubSeq(notes, 1, Len(notes) - 1))

\* the kinds _classify_discovery_error gives
DiscoveryKinds == {"AUTH_EXPIRED", "TIMEOUT", "FETCH_BLOCKED", "NOT_FOUND", "SEARCH_EMPTY"}

\* the step notes an exception of the provider the loop is at
NotesError ==
    /\ Len(provider_notes') = Len(provider_notes) + 1
    /\ provider_notes'[Len(provider_notes')].outcome = "error"

\* C25: a provider that raises does not end the call: the step that notes its
\* error records a kind of the discovery taxonomy (AUTH_EXPIRED for an
\* AUTH_EXPIRED error), stays in the loop and moves to the next provider; the
\* call leaves the loop only for the history backtrack and the return, and it
\* returns a DiscoveryResult, which without any refs is FAILED with the kind of
\* the last error recorded for a provider.
C25_RaisingProviderSkipped ==
    /\ [][/\ dpc = "loop" => dpc' \in {"loop", "after"}
          /\ NotesError =>
                LET note == provider_notes'[Len(provider_notes')]
                IN  /\ note.name = DiscoveryProviders[d_idx]
                    /\ note.error_kind \in DiscoveryKinds
                    /\ "auth_expired" \in note.text => note.error_kind = "AUTH_EXPIRED"
                    /\ dpc' = "loop"
                    /\ d_idx' = d_idx + 1
                    /\ all_refs' = all_refs
          /\ (dpc # "returned" /\ dpc' = "returned") =>
                /\ disc_result'.returned
                /\ disc_result'.ok = (all_refs # <<>>)
                /\ all_refs = <<>> =>
                      /\ disc_result'.status = "FAILED"
                      /\ disc_result'.refs = <<>>
                      /\ disc_result'.error_kind = LastRecordedError(provider_notes)
       ]_vars
    /\ [](dpc \in {"idle", "loop", "after", "store", "returned"})

\* the first provider raised AUTH_EXPIRED, the second was still consulted
\* and found nothing, the history had nothing, and the call returned FAILED
\* with AUTH_EXPIRED
C25_Witness ==
    /\ dpc = "returned"
    /\ Len(provider_notes) = 3
    /\ provider_notes[1].outcome = "error" /\ provider_notes[1].error_kind = "AUTH_EXPIRED"
    /\ provider_notes[2].name = "search_index" /\ provider_notes[2].outcome = "refs"
    /\ disc_result.status = "FAILED"
    /\ disc_result.error_kind = "AUTH_EXPIRED"

\* C26 as stated: whatever the refs of the discover calls, also with one url
\* more than once in a call, no flush or commit meets the unique constraint
\* on (subscription, url), and the confidence of a committed row never
\* decreases.
C26_OneRowPerUrl ==
    /\ [](~integrity_error)
    /\ [][\A u \in DOMAIN refs_committed :
             u \in DOMAIN refs_committed' /\ refs_committed'[u].confidence >= refs_committed[u].confidence
       ]_vars

\* C27: a successful discover returns refs with pairwise distinct urls, one
\* for every url among the refs it worked on, each the ref of the highest
\* confidence among those of its url, in descending order of confidence, and
\* channel_used is the channel of the first returned ref.
C27_DedupSorted ==
    (dpc = "returned" /\ disc_result.ok) =>
        LET refs == disc_result.refs
        IN  /\ refs # <<>>
            /\ \A i, j \in 1..Len(refs) : i # j => refs[i].url # refs[j].url
            /\ \A k \in 1..Len(all_refs) : \E i \in 1..Len(refs) :
                  /\ refs[i].url = all_refs[k].url
                  /\ refs[i].confidence >= all_refs[k].confidence
            /\ \A i \in 1..Len(refs) : \E k \in 1..Len(all_refs) : refs[i] = all_refs[k]
            /\ \A i, j \in 1..Len(refs) : i < j => refs[i].confidence >= refs[j].confidence
            /\ disc_result.channel_used = refs[1].channel

\* a provider returned the same url twice, the lower confidence first, and
\* another url; discover returned two refs, the one of confidence 80 first
C27_Witness ==
    /\ dpc = "returned" /\ disc_result.ok
    /\ Len(all_refs) = 3
    /\ all_refs[1].url = all_refs[3].url
    /\ all_refs[1].confidence < all_refs[3].confidence
    /\ all_refs[2].confidence = 55
    /\ Len(disc_result.refs) = 2
    /\ disc_result.refs[1] = all_refs[3]

\* the SyncRunItem of the run of the view for the subscription of an article
ItemStatusOf(article_pk) == view_in.status[view_in.articles[article_pk].subscription_id]

\* C28 as stated: with --strict-live no shown article belongs to a
\* subscription whose SyncRunItem of the run is FAILED.
C28_StrictLiveOnlySucceeded ==
    (view_out.done /\ view_in.strict_live) =>
        \A item \in view_out.items : ItemStatusOf(item.article_pk) # SYNC_ITEM_STATUS_FAILED

\* the articles of the day of the view
DayArticles ==
    { a \in DOMAIN view_in.articles :
        /\ day_start <= view_in.articles[a].published_at
        /\ view_in.articles[a].published_at < day_end }

\* the rank of an article of the day: one more than the number of the day's
\* articles published later, or at the same time with a smaller id
DayRank(a) ==
    1 + Cardinality({ b \in DayArticles :
                        \/ view_in.articles[b].published_at > view_in.articles[a].published_at
                        \/ /\ view_in.articles[b].published_at = view_in.articles[a].published_at
                           /\ b < a })

\* C29: every item view shows is of an article of the day and carries its
\* rank among the day's articles (published_at descending, id ascending) as
\* day-id, which is at least 1 and resolves back to that article; without a
\* filter the day-ids shown are exactly 1..n; resolving a day-id gives the
\* article of that rank, and nothing for an id outside 1..n.
C29_DayIdsAreRanks ==
    /\ view_out.done =>
          /\ \A item \in view_out.items :
                /\ item.article_pk \in DayArticles
                /\ item.published_at = view_in.articles[item.article_pk].published_at
                /\ item.day_id >= 1
                /\ item.day_id = DayRank(item.article_pk)
                /\ _resolve_article_pk_by_day_id(view_in.articles, item.day_id) = <<item.article_pk>>
          /\ ~view_in.strict_live =>
                { item.day_id : item \in view_out.items } = 1..Cardinality(DayArticles)
    /\ resolve_out.done =>
          IF resolve_out.day_id \in 1..Cardinality(DayArticles)
          THEN /\ Len(resolve_out.article_pk) = 1
               /\ resolve_out.article_pk[1] \in DayArticles
               /\ DayRank(resolve_out.article_pk[1]) = resolve_out.day_id
          ELSE resolve_out.article_pk = <<>>

\* two articles of the day, the second published later: it is shown with
\* day-id 1 and the first with day-id 2, and day-id 3 resolved to nothing
C29_Witness ==
    /\ view_out.done /\ ~view_in.strict_live
    /\ Len(view_in.articles) = 2
    /\ view_in.articles[1].published_at < view_in.articles[2].published_at
    /\ \E x, y \in view_out.items :
          /\ x.article_pk = 2 /\ x.day_id = 1
          /\ y.article_pk = 1 /\ y.day_id = 2
    /\ resolve_out.done /\ resolve_out.day_id = 3 /\ resolve_out.article_pk = <<>>

\* the status of the discovery_runs row of subscription sub in the run
\* compute selected, FAILED when there is no such row
CoverageStatus(sub) ==
    IF cov_out.run # <<>> /\ <<cov_out.run[1], sub>> \in DOMAIN cov_in.discovery_runs
    THEN cov_in.discovery_runs[<<cov_out.run[1], sub>>]
    ELSE DISCOVERY_STATUS_FAILED

\* the number of subscriptions with the given status
CoverageCount(status) ==
    Cardinality({ sub \in cov_in.subscriptions : CoverageStatus(sub) = status })

\* C30: compute gives every subscription exactly one of SUCCESS, DELAYED and
\* FAILED, FAILED when the selected run has no discovery_runs row for it (or
\* there is no run); the three counters count the subscriptions of each
\* status, they add up to total_subs, and coverage_ratio is
\* (success + delayed) / total, and 1.0 without subscriptions.
C30_CoverageCounts ==
    cov_out.done =>
        LET report == cov_out.report
        IN  /\ DOMAIN report.status_of = cov_in.subscriptions
            /\ \A sub \in cov_in.subscriptions :
                  /\ report.status_of[sub] = CoverageStatus(sub)
                  /\ report.status_of[sub] \in {DISCOVERY_STATUS_SUCCESS, DISCOVERY_STATUS_DELAYED,
                                                DISCOVERY_STATUS_FAILED}
            /\ report.total_subs = Cardinality(cov_in.subscriptions)
            /\ report.success_subs = CoverageCount(DISCOVERY_STATUS_SUCCESS)
            /\ report.delayed_subs = CoverageCount(DISCOVERY_STATUS_DELAYED)
            /\ report.fail_subs = CoverageCount(DISCOVERY_STATUS_FAILED)
            /\ report.success_subs + report.delayed_subs + report.fail_subs = report.total_subs
            /\ IF report.total_subs = 0 THEN report.coverage_ratio = ScoreScale
               ELSE report.coverage_ratio * report.total_subs
                       = (report.success_subs + report.delayed_subs) * ScoreScale
            /\ cov_out.coverage_daily = <<report>>

\* two subscriptions and two runs; the run of the day has a DELAYED row for
\* the first subscription and none for the second, which the older run found
\* with SUCCESS: one delayed, one failed, ratio one half
C30_Witness ==
    /\ cov_out.done
    /\ cov_in.subscriptions = {1, 2}
    /\ DOMAIN cov_in.started_at = {1, 2}
    /\ cov_in.started_at[1] < day_start /\ cov_in.started_at[2] >= day_start
    /\ cov_out.run = <<2>>
    /\ DOMAIN cov_in.discovery_runs = {<<2, 1>>, <<1, 2>>}
    /\ cov_in.discovery_runs[<<2, 1>>] = DISCOVERY_STATUS_DELAYED
    /\ cov_in.discovery_runs[<<1, 2>>] = DISCOVERY_STATUS_SUCCESS
    /\ cov_out.report.delayed_subs = 1 /\ cov_out.report.fail_subs = 1
    /\ cov_out.report.success_subs = 0
    /\ 2 * cov_out.report.coverage_ratio = ScoreScale

\* the articles marked read within the 30 days before the moment of db
ReadWithinWindow(db) ==
    {i \in DOMAIN db.articles :
        /\ db.articles[i].read_state.exists
        /\ db.articles[i].read_state.is_read
        /\ db.articles[i].read_state.read_at >= db.now - ProfileWindow}

\* the articles whose embeddings build_user_profile selects
ProfileSelection(db) ==
    LET rows == ProfileRows(db.articles, db.now - ProfileWindow, 1)
    IN  {rows[k] : k \in 1..Len(rows)}

\* C31: build_user_profile averages the embeddings of exactly the articles
\* marked read within the 30 days before now, whatever their publish time
C31_ProfileOfRecentReads ==
    [][BuildUserProfile =>
          /\ ProfileSelection(rec_db) = ReadWithinWindow(rec_db)
          /\ rec_profile'.sample_size = Cardinality(ReadWithinWindow(rec_db))]_vars

\* the vectors that entered the sum of build_user_profile
Contributing(db) ==
    LET rows == ProfileRows(db.articles, db.now - ProfileWindow, 1)
    IN  {k \in 1..Len(rows) :
            Len(db.articles[rows[k]].vector) = Len(db.articles[rows[1]].vector)}

\* C32: sample_size is the number of vectors that contributed to the mean
C32_SampleSizeCountsContributors ==
    [][BuildUserProfile => rec_profile'.sample_size = Cardinality(Contributing(rec_db))]_vars

\* final of one score is below final of another, both for an empty profile
FinalLess(r1, r2) == FloatLess(r1.score.fresh, r2.score.fresh)

\* the pairs (i, j) of scored articles with i published before j, and j not in the future
EarlierLater ==
    {p \in (DOMAIN rec_db.articles) \X (DOMAIN rec_db.articles) :
        /\ rec_db.articles[p[1]].published_at < rec_db.articles[p[2]].published_at
        /\ rec_db.articles[p[2]].published_at <= rec_db.now}

\* the scores were computed with a profile of sample_size 0
ColdStart == rec_score.scored /\ \A i \in DOMAIN rec_score.rows : rec_score.rows[i].profile_size = 0

\* final = freshness and topic = 0 in every score
FreshnessOnly ==
    \A i \in DOMAIN rec_score.rows :
        /\ rec_score.rows[i].topic_score = NoTopic
        /\ rec_score.rows[i].score =
              [blend |-> FALSE, topic |-> NoTopic, fresh |-> rec_score.rows[i].freshness_score]

C34_SummaryWithinLimit ==
    sum_out.done => Len(sum_out.summary_text) >= 1 /\ Len(sum_out.summary_text) <= SummaryLimit

\* C35: failover is live: with a discovered candidate whose probe and fetch
\* always succeed, after finitely many runs fetch_with_failover returns success
C35_FailoverIsLive == <>(pc = "done" /\ result.ok)

\* the latest run has a SUCCESS item for subscription sub
LatestRunSucceeded(sub) ==
    \E i \in DOMAIN sync_run_items :
        /\ sync_run_items[i].sync_run_id = Len(sync_runs)
        /\ sync_run_items[i].subscription_id = sub
        /\ sync_run_items[i].status = SYNC_ITEM_STATUS_SUCCESS

\* the article parse_feed makes of entry e is stored for subscription sub
Stored(e, sub) ==
    \E i \in DOMAIN articles :
        /\ articles[i].subscription_id = sub
        /\ articles[i].external_id = ExternalId(e.id, "u1", e.published[1])

\* C36: with incremental sync no article is lost to the moving since bound:
\* an article published at or after day_start, listed by the feed from its
\* publication on, is stored once a run that started after its publication
\* has succeeded for the subscription
C36_NoArticleLost ==
    (spc = "returned" /\ incremental_sync_enabled /\ LatestRunSucceeded(1)) =>
        \A i \in DOMAIN feed :
            (/\ feed[i].published # <<>>
             /\ feed[i].published[1] >= day_start
             /\ feed[i].published[1] <= sync_runs[Len(sync_runs)].started_at)
            => Stored(feed[i], 1)

\* C39: parse_feed gives an entry an external_id that does not depend on the
\* time of parsing, so fetching the feed again inserts no further Articles:
\* the subscription never has more articles than its feed has entries
C39_RefetchInsertsNothing == Len(articles) <= Len(feed)

\* C37: with fail_threshold fixed, every SourceHealth row that is CLOSED has
\* consecutive_failures < fail_threshold and no cooldown_until, every OPEN row
\* has consecutive_failures >= fail_threshold and a cooldown_until, and every
\* HALF_OPEN row has consecutive_failures >= fail_threshold.
C37_StateMatchesCount ==
    \A k \in DOMAIN health :
        /\ health[k].state \in {HEALTH_STATE_CLOSED, HEALTH_STATE_OPEN, HEALTH_STATE_HALF_OPEN}
        /\ health[k].state = HEALTH_STATE_CLOSED =>
              /\ health[k].consecutive_failures < fail_threshold
              /\ health[k].cooldown_until = <<>>
        /\ health[k].state = HEALTH_STATE_OPEN =>
              /\ health[k].consecutive_failures >= fail_threshold
              /\ health[k].cooldown_until # <<>>
        /\ health[k].state = HEALTH_STATE_HALF_OPEN =>
              health[k].consecutive_failures >= fail_threshold

\* C37 witness: one row is HALF_OPEN with the failures that opened it, and
\* another is CLOSED with failures short of the threshold
C37_Witness ==
    \E k, j \in DOMAIN health :
        /\ health[k].state = HEALTH_STATE_HALF_OPEN
        /\ health[k].consecutive_failures = fail_threshold
        /\ health[k].cooldown_until # <<>>
        /\ health[j].state = HEALTH_STATE_CLOSED
        /\ health[j].consecutive_failures > 0

\* the FetchAttempt rows the running call has appended for candidate k
RowsOfCall(k) == SelectSeq(CallRows, LAMBDA row : row.key = k)

\* consecutive_failures of k in health table h, 0 where k has no row
FailuresIn(h, k) == IF k \in DOMAIN h THEN h[k].consecutive_failures ELSE 0

\* C38: one fetch_with_failover call appends at most one FetchAttempt for each
\* candidate, a retried fetch that fails twice included, and so raises no
\* candidate's consecutive_failures by more than 1.
C38_OneAttemptPerCandidate ==
    pc # "idle" =>
        \A k \in Keys :
            /\ Len(RowsOfCall(k)) <= 1
            /\ FailuresIn(health, k) <= FailuresIn(health0, k) + 1

\* C38 witness: the call invoked fetch twice on a candidate, both failed, and
\* the candidate has one FAILED row and one more consecutive failure
C38_Witness ==
    /\ pc # "idle"
    /\ \E k \in Keys :
          /\ Len(SelectSeq(io, LAMBDA c : c.op = "fetch" /\ c.key = k /\ c.kind # "ok")) = 2
          /\ Len(RowsOfCall(k)) = 1
          /\ RowsOfCall(k)[1].status = FETCH_STATUS_FAILED
          /\ FailuresIn(health, k) = FailuresIn(health0, k) + 1
          /\ FailuresIn(health0, k) > 0

\* the vault holds no session that is valid at time t
NoValidSession(vault, t) == vault = <<>> \/ vault[1].expires_at <= t

\* what made the last search fail is still so when the sync client does outcome
StillFails(outcome) ==
    IF web_out.message = "AUTH_REQUIRED"
    THEN NoValidSession(session_vault, now)
    ELSE ~NoValidSession(session_vault, now) /\ outcome.type = "raise"

\* C40: a failed session sync is not cached: after search_for_subscription
\* failed for a date, with AUTH_REQUIRED or because the sync call raised, a
\* further call for the same date on the same provider, the cause still
\* there, attempts the sync again and fails the same way; it does not return
\* an empty list of refs.
C40_FailedSyncNotCached ==
    web_out.type = "raise" =>
        \A outcome \in SyncOutcomes :
            StillFails(outcome) =>
                LET again == search_for_subscription(web_provider, session_vault,
                                                     web_out.target_date, outcome, now).out
                IN  /\ again.type = "raise"
                    /\ again.message = web_out.message

====
